---- MODULE Spec2Model ----
(***************************************************************************)
(* Field grounding and multi-pass refinement engine of SAI_V1.             *)
(*                                                                         *)
(* Python strings are sequences of one-character strings, so that the      *)
(* regular expressions and string methods of the source are computed, not  *)
(* assumed.  A confidence c is the integer c * Scale (Scale = 10^7): every *)
(* product of the source's factors 0.7, 0.8, 0.9, 0.95, 0.9 and 1.05 with  *)
(* a two-decimal confidence is then exact or truncated below 10^-7.        *)
(* A Python dict is the sequence of its entries in insertion order.        *)
(***************************************************************************)
EXTENDS Integers, Sequences, FiniteSets, TLC

VARIABLES
    pc,                \* position of the invoked entry point in its code
    service,           \* the entry point invoked: production, document or enhanced
    req,               \* the arguments of the invocation
    use_real_api,      \* GeminiService.use_real_api
    document_type,     \* local document_type
    general_fields,    \* _multi_pass_extraction: general_fields / _single_pass: fields
    focused_fields,    \* _multi_pass_extraction: focused_fields
    focused_prompt,    \* _extract_missing_fields: the missing_fields its prompt names
    custom_extracted,  \* custom_extracted of either extraction path
    extracted_data,    \* combined_fields / refined_fields / extracted_data
    calls,             \* the Oracle passes invoked so far, in order
    oracle_failed,     \* the passes whose Oracle call raised
    stages,            \* the post-extraction stages run so far, in order
    raised_in,         \* where an exception reached the outer handler ("" if none)
    result,            \* the DocumentProcessingResult returned
    documents,         \* ProductionDocumentService.documents
    processing_stats,  \* ProductionDocumentService.processing_stats
    ds_documents,      \* DocumentProcessingService.documents
    ocr_results,       \* process_document_enhanced: local ocr_results
    enhanced_result,   \* the dict process_document_enhanced returned
    batch_call,        \* the arguments of process_batch / process_batch_enterprise
    semaphore,         \* the value of the asyncio.Semaphore of the batch
    tasks,             \* the process_single task of each file: position and result
    finished,          \* process_batch: the queue of as_completed, tasks in order of return
    results,           \* process_batch: the results collected so far
    failed_count,      \* process_batch: failed_count
    batch_result,      \* the BatchProcessingResult returned
    find_pc,           \* _find_field_location: the strategy to try next
    find_value,        \* _find_field_location: value
    find_ocr,          \* _find_field_location: ocr_results
    consulted,         \* _find_field_location: the strategies tried so far, in order
    found_location,    \* _find_field_location: the location returned
    content_check,     \* a call of a field validator: its arguments and the errors returned
    enterprise_pc,     \* position of process_document_enterprise in its code
    enterprise_req,    \* the arguments of process_document_enterprise
    enterprise_ocr,    \* _process_with_enhanced_pipeline: ocr_results
    enterprise_data,   \* process_document_enterprise: extracted_data and the call it is from
    enterprise_result, \* the DocumentProcessingResult process_document_enterprise returned
    enterprise_documents, \* EnterpriseDocumentService.documents, in order of insertion
    enterprise_stats   \* EnterpriseDocumentService.processing_stats

vars == <<pc, service, req, use_real_api, document_type, general_fields, focused_fields,
          focused_prompt,
          custom_extracted, extracted_data, calls, oracle_failed, stages,
          raised_in, result, documents, processing_stats, ds_documents, ocr_results,
          enhanced_result, batch_call, semaphore, tasks, finished, results, failed_count,
          batch_result, find_pc, find_value, find_ocr, consulted, found_location,
          content_check, enterprise_pc, enterprise_req, enterprise_ocr, enterprise_data,
          enterprise_result, enterprise_documents, enterprise_stats>>

\* the state of a single-document call
session_state == <<pc, service, req, use_real_api, document_type, general_fields,
                   focused_fields, focused_prompt, custom_extracted, extracted_data, calls,
                   oracle_failed, stages, raised_in, result, documents, processing_stats,
                   ds_documents, ocr_results, enhanced_result>>

\* the state of a call of _find_field_location
grounding_state == <<find_pc, find_value, find_ocr, consulted, found_location>>

\* the state of a call of a field validator
validator_state == <<content_check>>

\* the state of EnterpriseDocumentService and of a call of process_document_enterprise
enterprise_state == <<enterprise_pc, enterprise_req, enterprise_ocr, enterprise_data,
                      enterprise_result, enterprise_documents, enterprise_stats>>

\* what a batch run never touches
single_call == <<session_state, grounding_state, validator_state, enterprise_state>>

\* the state of a batch run, which a single-document call never touches
batch_state == <<batch_call, semaphore, tasks, finished, results, failed_count, batch_result>>

\* what the production service never touches
elsewhere == <<ds_documents, ocr_results, enhanced_result, batch_state, focused_prompt,
               grounding_state,
               validator_state, enterprise_state>>

----------------------------------------------------------------------------
(* Numbers *)

Scale == 10 * 1000 * 1000

\* F(x), with x evaluated once: its value is what F receives
Bind(x, F(_)) == CHOOSE r \in {F(v) : v \in {x}} : TRUE
Bind2(x, y, F(_, _)) == CHOOSE r \in {F(v, w) : v \in {x}, w \in {y}} : TRUE

Min(a, b) == IF a <= b THEN a ELSE b
Max(a, b) == IF a >= b THEN a ELSE b

\* min(S) and max(S) of a non-empty set of integers
Least(S) == Bind(S, LAMBDA T : CHOOSE n \in T : \A m \in T : n <= m)
Greatest(S) == Bind(S, LAMBDA T : CHOOSE n \in T : \A m \in T : n >= m)

\* c * (num / den) on scaled confidences
Times(c, num, den) == (c * num) \div den

\* hundredths to scaled confidence: Conf(95) is 0.95
Conf(h) == h * (Scale \div 100)

----------------------------------------------------------------------------
(* Strings *)

LowerLetters == <<"a", "b", "c", "d", "e", "f", "g", "h", "i", "j", "k", "l", "m",
                  "n", "o", "p", "q", "r", "s", "t", "u", "v", "w", "x", "y", "z">>
UpperLetters == <<"A", "B", "C", "D", "E", "F", "G", "H", "I", "J", "K", "L", "M",
                  "N", "O", "P", "Q", "R", "S", "T", "U", "V", "W", "X", "Y", "Z">>
Digit == {"0", "1", "2", "3", "4", "5", "6", "7", "8", "9"}
Alpha == {LowerLetters[i] : i \in 1..26} \cup {UpperLetters[i] : i \in 1..26}
Space == {" "}
AnyChar == Alpha \cup Digit \cup Space \cup
           {"$", ",", ".", "-", "/", "_", "@", "%", "+", "(", ")", ":", "#"}

LowerChar(c) ==
    IF \E i \in 1..26 : UpperLetters[i] = c
    THEN LowerLetters[CHOOSE i \in 1..26 : UpperLetters[i] = c]
    ELSE c

UpperChar(c) ==
    IF \E i \in 1..26 : LowerLetters[i] = c
    THEN UpperLetters[CHOOSE i \in 1..26 : LowerLetters[i] = c]
    ELSE c

\* str.lower()
Lower(s) == [i \in 1..Len(s) |-> LowerChar(s[i])]

\* str.strip()
RECURSIVE LStrip(_)
LStrip(s) == IF s # <<>> /\ Head(s) \in Space THEN Bind(Tail(s), LStrip) ELSE s

RECURSIVE RStrip(_)
RStrip(s) ==
    IF s # <<>> /\ s[Len(s)] \in Space THEN Bind(SubSeq(s, 1, Len(s) - 1), RStrip) ELSE s

Strip(s) == Bind(LStrip(s), RStrip)

\* term in s
Contains(term, s) ==
    \E t \in {term}, u \in {s} :
        \E i \in 1..(Len(u) - Len(t) + 1) : SubSeq(u, i, i + Len(t) - 1) = t

\* any(term in field_name.lower() for term in terms)
AnyTermIn(terms, field_name) ==
    \E lowered \in {Lower(field_name)} : \E t \in terms : Contains(t, lowered)

\* str.replace(old, new) for a one-character old
ReplaceChar(s, old, new) == [i \in 1..Len(s) |-> IF s[i] = old THEN new ELSE s[i]]

\* re.sub(r'\s+', ' ', s): every run of whitespace becomes one space
CollapseSpaces(s) ==
    Bind(s, LAMBDA t :
        Bind(SelectSeq([i \in DOMAIN t |-> i],
                       LAMBDA i : t[i] \notin Space \/ i = 1 \/ t[i - 1] \notin Space),
             LAMBDA kept : [k \in 1..Len(kept) |->
                               IF t[kept[k]] \in Space THEN " " ELSE t[kept[k]]]))

\* str.split(): the words between runs of whitespace, from the first character
\* of each word to its last
SplitWords(s) ==
    Bind(s, LAMBDA t :
        Bind2(SelectSeq([i \in DOMAIN t |-> i],
                        LAMBDA i : t[i] \notin Space /\ (i = 1 \/ t[i - 1] \in Space)),
              SelectSeq([i \in DOMAIN t |-> i],
                        LAMBDA i : t[i] \notin Space /\ (i = Len(t) \/ t[i + 1] \in Space)),
              LAMBDA first, last : [k \in 1..Len(first) |-> SubSeq(t, first[k], last[k])]))

\* str.capitalize()
Capitalize(w) ==
    [i \in 1..Len(w) |-> IF i = 1 THEN UpperChar(w[i]) ELSE LowerChar(w[i])]

\* ' '.join(words)
RECURSIVE JoinWords(_)
JoinWords(ws) ==
    IF ws = <<>> THEN <<>>
    ELSE IF Len(ws) = 1 THEN ws[1]
    ELSE ws[1] \o <<" ">> \o Bind(Tail(ws), JoinWords)

\* ' '.join(word.capitalize() for word in s.split())
TitleWords(s) ==
    Bind(SplitWords(s),
         LAMBDA ws : JoinWords([i \in 1..Len(ws) |-> Capitalize(ws[i])]))

----------------------------------------------------------------------------
(* Regular expressions: a pattern is a sequence of atoms [cs, lo, hi], a    *)
(* character class repeated lo..hi times.                                   *)

Atom(cs, lo, hi) == [cs |-> cs, lo |-> lo, hi |-> hi, many |-> FALSE]
AtomMany(cs, lo) == [cs |-> cs, lo |-> lo, hi |-> lo, many |-> TRUE]

\* the positions after a match of pat[k..] that starts at position i of s
RECURSIVE MatchEnds(_, _, _, _)
MatchEnds(s, i, pat, k) ==
    IF k > Len(pat) THEN {i}
    ELSE UNION { MatchEnds(s, i + n, pat, k + 1) :
                 n \in { m \in pat[k].lo..(IF pat[k].many THEN Len(s) - i + 1
                                            ELSE Min(pat[k].hi, Len(s) - i + 1)) :
                         \A j \in i..(i + m - 1) : s[j] \in pat[k].cs } }

\* re.search(pat, s)
Search(pat, s) == \E t \in {s} : \E i \in 1..(Len(t) + 1) : MatchEnds(t, i, pat, 1) # {}

\* re.match('^...$', s)
FullMatch(pat, s) == \E t \in {s} : (Len(t) + 1) \in MatchEnds(t, 1, pat, 1)

----------------------------------------------------------------------------
(* schemas.py *)

DocumentTypes == {"invoice", "receipt", "business_card", "custom"}
NoType == "none"

NoLocation == [present |-> FALSE, x |-> 0, y |-> 0, width |-> 0, height |-> 0]
FieldLocation(x, y, w, h) == [present |-> TRUE, x |-> x, y |-> y, width |-> w, height |-> h]

\* a confidence field declared without its ge and le
ConfidenceUnchecked(c) == TRUE

\* Field(..., ge=0, le=1) of ExtractedField.confidence: construction raises otherwise
ConfidenceAccepted(c) == 0 <= c /\ c <= Scale

ExtractedField(value, confidence, level, location, original_text, errors) ==
    [value |-> value, confidence |-> confidence, confidence_level |-> level,
     location |-> location, original_text |-> original_text,
     validation_errors |-> errors]

\* the level function with the thresholds of the comments of ConfidenceLevel (">90%",
\* "70-90%", "<70%"), where 0.9 itself is not high
LevelAboveThreshold(c) ==
    IF c > Conf(90) THEN "high" ELSE IF c >= Conf(70) THEN "medium" ELSE "low"

\* _get_confidence_level of the production, Gemini, enhanced Gemini and universal
\* services; ConfidenceLevel is a str Enum, HIGH = "high", MEDIUM = "medium", LOW = "low"
GetConfidenceLevel(c) ==
    IF c >= Conf(90) THEN "high" ELSE IF c >= Conf(70) THEN "medium" ELSE "low"

\* helpers.calculate_confidence_level, which returns the strings themselves
CalculateConfidenceLevel(c) ==
    IF c >= Conf(90) THEN "high" ELSE IF c >= Conf(70) THEN "medium" ELSE "low"

\* EnterpriseDocumentService._get_confidence_level
EnterpriseGetConfidenceLevel(c) ==
    IF c >= Conf(90) THEN "high" ELSE IF c >= Conf(70) THEN "medium" ELSE "low"

----------------------------------------------------------------------------
(* Python dict: entries [name, f] in insertion order, names unique *)

Entry(n, f) == [name |-> n, f |-> f]
Keys(d) == {d[i].name : i \in DOMAIN d}
Has(d, n) == \E i \in DOMAIN d : d[i].name = n
Get(d, n) == d[CHOOSE i \in DOMAIN d : d[i].name = n].f

\* d[n] = f
Put(d, n, f) ==
    IF Has(d, n)
    THEN [i \in DOMAIN d |-> IF d[i].name = n THEN Entry(n, f) ELSE d[i]]
    ELSE Append(d, Entry(n, f))

\* a.update(b), {**a, **b}
RECURSIVE DictUpdate(_, _)
DictUpdate(a, b) ==
    IF b = <<>> THEN a ELSE Bind2(Put(a, b[1].name, b[1].f), Tail(b), DictUpdate)

----------------------------------------------------------------------------
(* Field names and the terms the services look for in them *)

T_amount == <<"a", "m", "o", "u", "n", "t">>
T_total == <<"t", "o", "t", "a", "l">>
T_price == <<"p", "r", "i", "c", "e">>
T_cost == <<"c", "o", "s", "t">>
T_subtotal == <<"s", "u", "b", "t", "o", "t", "a", "l">>
T_date == <<"d", "a", "t", "e">>
T_due == <<"d", "u", "e">>
T_email == <<"e", "m", "a", "i", "l">>
T_phone == <<"p", "h", "o", "n", "e">>
T_name == <<"n", "a", "m", "e">>
T_vendor == <<"v", "e", "n", "d", "o", "r">>
T_customer == <<"c", "u", "s", "t", "o", "m", "e", "r">>
T_merchant == <<"m", "e", "r", "c", "h", "a", "n", "t">>
T_number == <<"n", "u", "m", "b", "e", "r">>

N_vendor_name == <<"v", "e", "n", "d", "o", "r", "_", "n", "a", "m", "e">>
N_invoice_number == <<"i", "n", "v", "o", "i", "c", "e", "_", "n", "u", "m", "b", "e", "r">>
N_total_amount == <<"t", "o", "t", "a", "l", "_", "a", "m", "o", "u", "n", "t">>
N_invoice_date == <<"i", "n", "v", "o", "i", "c", "e", "_", "d", "a", "t", "e">>
N_merchant_name == <<"m", "e", "r", "c", "h", "a", "n", "t", "_", "n", "a", "m", "e">>
N_transaction_date == <<"t", "r", "a", "n", "s", "a", "c", "t", "i", "o", "n", "_", "d", "a", "t", "e">>
N_payment_method == <<"p", "a", "y", "m", "e", "n", "t", "_", "m", "e", "t", "h", "o", "d">>
N_full_name == <<"f", "u", "l", "l", "_", "n", "a", "m", "e">>
N_company == <<"c", "o", "m", "p", "a", "n", "y">>
N_title == <<"t", "i", "t", "l", "e">>
N_email == <<"e", "m", "a", "i", "l">>
N_phone == <<"p", "h", "o", "n", "e">>
N_notes == <<"n", "o", "t", "e", "s">>
N_po_number == <<"p", "o", "_", "n", "u", "m", "b", "e", "r">>
N_subtotal == <<"s", "u", "b", "t", "o", "t", "a", "l">>
N_tax_amount == <<"t", "a", "x", "_", "a", "m", "o", "u", "n", "t">>
N_currency == <<"c", "u", "r", "r", "e", "n", "c", "y">>
N_vendor_address == <<"v", "e", "n", "d", "o", "r", "_", "a", "d", "d", "r", "e", "s", "s">>
N_document_content == <<"d", "o", "c", "u", "m", "e", "n", "t", "_", "c", "o", "n", "t", "e", "n", "t">>

CurrencyTerms == {T_amount, T_total, T_price, T_cost, T_subtotal}
DateTerms == {T_date, T_due}
NameTerms == {T_name, T_vendor, T_customer, T_merchant}

----------------------------------------------------------------------------
(* ProductionDocumentService: cleaning, validation, correction *)

\* _clean_field_value
CleanFieldValue(field_name, value) ==
    IF value = <<>> THEN <<>>
    ELSE LET cleaned == Strip(value)
         IN IF AnyTermIn(CurrencyTerms, field_name) THEN CollapseSpaces(cleaned)
            ELSE IF AnyTermIn(DateTerms, field_name)
                 THEN ReplaceChar(ReplaceChar(cleaned, "/", "-"), ".", "-")
            ELSE IF AnyTermIn(NameTerms, field_name) THEN TitleWords(cleaned)
            ELSE cleaned

\* r'[\d,]+\.?\d*'
AmountPattern == <<AtomMany(Digit \cup {","}, 1), Atom({"."}, 0, 1), AtomMany(Digit, 0)>>

\* the four patterns of _is_valid_date_format
DatePatterns ==
    { <<Atom(Digit, 1, 2), Atom({"-", "/"}, 1, 1), Atom(Digit, 1, 2),
        Atom({"-", "/"}, 1, 1), Atom(Digit, 2, 4)>>,
      <<Atom(Digit, 4, 4), Atom({"-", "/"}, 1, 1), Atom(Digit, 1, 2),
        Atom({"-", "/"}, 1, 1), Atom(Digit, 1, 2)>>,
      <<AtomMany(Alpha, 1), Atom({" "}, 1, 1), Atom(Digit, 1, 2), Atom({","}, 1, 1),
        Atom({" "}, 1, 1), Atom(Digit, 4, 4)>>,
      <<Atom(Digit, 1, 2), Atom({" "}, 1, 1), AtomMany(Alpha, 1), Atom({" "}, 1, 1),
        Atom(Digit, 4, 4)>> }

\* _is_valid_date_format
IsValidDateFormat(s) == \E p \in DatePatterns : Search(p, s)

\* r'^[a-zA-Z0-9._%+-]+@[a-zA-Z0-9.-]+\.[a-zA-Z]{2,}$'
EmailPattern ==
    <<AtomMany(Alpha \cup Digit \cup {".", "_", "%", "+", "-"}, 1), Atom({"@"}, 1, 1),
      AtomMany(Alpha \cup Digit \cup {".", "-"}, 1), Atom({"."}, 1, 1), AtomMany(Alpha, 2)>>

\* _validate_field_content
ValidateFieldContent(field_name, value) ==
    IF value = <<>> THEN <<>>
    ELSE LET value_str == Strip(value)
         IN IF AnyTermIn(CurrencyTerms, field_name)
            THEN (IF Search(AmountPattern, value_str) THEN <<>>
                  ELSE <<"Invalid amount format">>)
            ELSE IF AnyTermIn(DateTerms, field_name)
            THEN (IF IsValidDateFormat(value_str) THEN <<>>
                  ELSE <<"Invalid date format">>)
            ELSE IF Contains(T_email, Lower(field_name))
            THEN (IF FullMatch(EmailPattern, value_str) THEN <<>>
                  ELSE <<"Invalid email format">>)
            ELSE <<>>

\* re.sub(r'(\d)[seps](\d)', r'\1' + repl + r'\2', s)
RECURSIVE SubBetweenDigits(_, _, _)
SubBetweenDigits(s, seps, repl) ==
    IF Len(s) < 3 THEN s
    ELSE IF s[1] \in Digit /\ s[2] \in seps /\ s[3] \in Digit
         THEN <<s[1]>> \o repl \o <<s[3]>>
              \o Bind(SubSeq(s, 4, Len(s)), LAMBDA rest : SubBetweenDigits(rest, seps, repl))
         ELSE <<s[1]>> \o Bind(Tail(s), LAMBDA rest : SubBetweenDigits(rest, seps, repl))

InErrors(e, errors) == \E i \in DOMAIN errors : errors[i] = e

\* _auto_correct_field
AutoCorrectField(field_name, value, validation_errors) ==
    IF validation_errors = <<>> \/ value = <<>> THEN value
    ELSE LET corrected == Strip(value)
         IN IF InErrors("Invalid amount format", validation_errors)
            THEN SubBetweenDigits(SubBetweenDigits(corrected, {"o"}, <<".", "0">>),
                                  {"l"}, <<".", "1">>)
            ELSE IF InErrors("Invalid date format", validation_errors)
            THEN SubBetweenDigits(corrected, {".", "o"}, <<"/">>)
            ELSE corrected

\* one iteration of the loop of _refine_extracted_fields
RefineField(field_name, field) ==
    Bind(CleanFieldValue(field_name, field.value), LAMBDA cleaned_value :
    Bind(ValidateFieldContent(field_name, cleaned_value), LAMBDA validation_errors :
        LET adjusted_confidence == IF validation_errors # <<>>
                                   THEN Times(field.confidence, 7, 10)
                                   ELSE field.confidence
        IN ExtractedField(cleaned_value, adjusted_confidence,
                          GetConfidenceLevel(adjusted_confidence), field.location,
                          field.original_text, validation_errors)))

\* _refine_extracted_fields
RefineExtractedFields(fields) ==
    [i \in DOMAIN fields |-> Entry(fields[i].name, RefineField(fields[i].name, fields[i].f))]

\* one iteration of the loop of _validate_and_correct_fields
ValidateAndCorrectField(field_name, field) ==
    Bind(ValidateFieldContent(field_name, field.value), LAMBDA validation_errors :
    Bind(AutoCorrectField(field_name, field.value, validation_errors),
         LAMBDA corrected_value :
        LET c1 == IF validation_errors # <<>> THEN Times(field.confidence, 8, 10)
                  ELSE field.confidence
            confidence == IF corrected_value # field.value THEN Times(c1, 9, 10) ELSE c1
        IN ExtractedField(corrected_value, confidence, GetConfidenceLevel(confidence),
                          field.location, field.original_text, validation_errors)))

\* _validate_and_correct_fields
ValidateAndCorrectFields(fields) ==
    [i \in DOMAIN fields |->
        Entry(fields[i].name, ValidateAndCorrectField(fields[i].name, fields[i].f))]

----------------------------------------------------------------------------
(* The Oracle (Gemini) and its responses *)

V_ACME == <<"A", "C", "M", "E", " ", "C", "o", "r", "p", "o", "r", "a", "t", "i", "o", "n">>
V_INV2025 == <<"I", "N", "V", "-", "2", "0", "2", "5", "-", "0", "0", "1">>
V_AMT == <<"$", "1", ",", "2", "3", "4", ".", "5", "6">>
V_D2025 == <<"2", "0", "2", "5", "-", "0", "6", "-", "1", "8">>
V_D18 == <<"1", "8", "/", "0", "6", "/", "2", "0", "2", "5">>
V_INV2024 == <<"I", "N", "V", "-", "2", "0", "2", "4", "-", "0", "0", "1">>
V_D2024 == <<"2", "0", "2", "4", "-", "0", "1", "-", "1", "5">>
V_AMT2 == <<"1", ",", "2", "3", "4", ".", "5", "6">>
V_USD == <<"U", "S", "D">>
V_ADDR == <<"1", "2", "3", " ", "B", "u", "s", "i", "n", "e", "s", "s", " ", "S", "t",
            ",", " ", "C", "i", "t", "y", ",", " ", "S", "t", "a", "t", "e", " ", "1", "2", "3",
            "4", "5">>
V_SUB == <<"1", ",", "1", "3", "4", ".", "5", "6">>
V_TAX == <<"1", "0", "0", ".", "0", "0">>
V_COFFEE == <<"C", "o", "f", "f", "e", "e", " ", "S", "h", "o", "p">>
V_1550 == <<"1", "5", ".", "5", "0">>
V_CC == <<"C", "r", "e", "d", "i", "t", " ", "C", "a", "r", "d">>
V_JOHN == <<"J", "o", "h", "n", " ", "S", "m", "i", "t", "h">>
V_TECH == <<"T", "e", "c", "h", " ", "S", "o", "l", "u", "t", "i", "o", "n", "s", " ", "I", "n", "c">>
V_SAMPLE == <<"S", "a", "m", "p", "l", "e", " ", "e", "x", "t", "r", "a", "c", "t", "e",
              "d", " ", "c", "o", "n", "t", "e", "n", "t">>
V_SWE == <<"S", "o", "f", "t", "w", "a", "r", "e", " ", "E", "n", "g", "i", "n", "e",
           "e", "r">>
V_MAIL == <<"j", "o", "h", "n", ".", "s", "m", "i", "t", "h", "@", "t", "e", "c", "h",
            "s", "o", "l", "u", "t", "i", "o", "n", "s", ".", "c", "o", "m">>
V_PHONE == <<"+", "1", " ", "(", "5", "5", "5", ")", " ", "1", "2", "3", "-", "4", "5",
             "6", "7">>
V_globex == <<"g", "l", "o", "b", "e", "x", " ", "c", "o", "r", "p">>
V_INV7 == <<"I", "N", "V", "-", "7">>
V_NA == <<"N", "/", "A">>
V_DDOT == <<"1", "8", ".", "0", "6", ".", "2", "0", "2", "5">>
V_PO1 == <<"P", "O", "-", "1">>
V_pad == <<" ", "9", "9", ".", "5", "0", " ">>
V_paid == <<"p", "a", "i", "d">>
V_one == <<"1", ".", "0", "0">>

\* one member of the JSON object of a response
RawItem(name, is_dict, has_value, value, ckind, cnum, has_orig, orig) ==
    [name |-> name, is_dict |-> is_dict, has_value |-> has_value, value |-> value,
     ckind |-> ckind, cnum |-> cnum, has_orig |-> has_orig, original_text |-> orig]

\* "name": {"value": value, "confidence": h / 100}
Item(name, value, h) == RawItem(name, TRUE, TRUE, value, "num", Conf(h), FALSE, <<>>)
\* "name": {"value": value, "confidence": h / 100, "original_text": orig}
ItemOrig(name, value, h, orig) == RawItem(name, TRUE, TRUE, value, "num", Conf(h), TRUE, orig)
\* "name": {"value": value}
ItemNoConf(name, value) == RawItem(name, TRUE, TRUE, value, "missing", 0, FALSE, <<>>)
\* "name": {"value": value, "confidence": "high"}
ItemTextConf(name, value) == RawItem(name, TRUE, TRUE, value, "text", 0, FALSE, <<>>)
\* "name": {"confidence": h / 100}
ItemNoValue(name, h) == RawItem(name, TRUE, FALSE, <<>>, "num", Conf(h), FALSE, <<>>)
\* "name": "value"
ItemScalar(name, value) == RawItem(name, FALSE, FALSE, value, "missing", 0, FALSE, <<>>)

JsonResponse(items) == [json |-> TRUE, items |-> items]
R_NotJson == [json |-> FALSE, items |-> <<>>]

R_Empty == JsonResponse(<<>>)
R_Invoice == JsonResponse(<<Item(N_vendor_name, V_globex, 85),
                            Item(N_invoice_number, V_INV7, 90),
                            Item(N_total_amount, V_pad, 100),
                            Item(N_invoice_date, V_DDOT, 80),
                            Item(N_notes, V_paid, 60)>>)
R_Gaps == JsonResponse(<<Item(N_vendor_name, V_globex, 95),
                         Item(N_invoice_number, <<>>, 30),
                         ItemNoConf(N_notes, V_paid)>>)
R_Focused == JsonResponse(<<Item(N_invoice_number, V_INV2024, 90),
                            Item(N_total_amount, V_NA, 75),
                            Item(N_vendor_name, V_ACME, 70)>>)
R_TextConf == JsonResponse(<<Item(N_vendor_name, V_globex, 85),
                             ItemTextConf(N_total_amount, V_one)>>)
R_OutOfRange == JsonResponse(<<Item(N_total_amount, V_one, 150)>>)
R_Custom == JsonResponse(<<Item(N_po_number, V_PO1, 80),
                           Item(N_total_amount, V_one, 50)>>)
R_Math == JsonResponse(<<Item(N_subtotal, V_TAX, 90), Item(N_tax_amount, V_one, 90),
                         Item(N_total_amount, V_1550, 95)>>)
R_Balanced == JsonResponse(<<Item(N_subtotal, V_SUB, 90), Item(N_tax_amount, V_TAX, 90),
                             Item(N_total_amount, V_AMT, 95)>>)
R_Loose == JsonResponse(<<ItemNoValue(N_notes, 80), ItemScalar(N_currency, V_USD)>>)

\* what the real model may answer to an extraction prompt
OracleResponses == {R_NotJson, R_Empty, R_Invoice, R_Gaps, R_Focused, R_TextConf,
                    R_OutOfRange, R_Custom, R_Math, R_Balanced, R_Loose}

\* _get_mock_simple_response for a prompt that contains "extract"
MockSimpleResponse ==
    JsonResponse(<<ItemOrig(N_vendor_name, V_ACME, 95, V_ACME),
                   ItemOrig(N_invoice_number, V_INV2025, 92, V_INV2025),
                   ItemOrig(N_total_amount, V_AMT, 98, V_AMT),
                   ItemOrig(N_invoice_date, V_D2025, 90, V_D18)>>)

\* generate_content of the real model: it raises, or it answers
Raises == [raised |-> TRUE, response |-> R_NotJson]
Answers(r) == [raised |-> FALSE, response |-> r]
OracleOutcomes == {Raises} \cup {Answers(r) : r \in OracleResponses}

\* _get_gemini_response_simple: the text handed to the parser
GetGeminiResponseSimple(real, outcome) ==
    IF real /\ ~outcome.raised THEN outcome.response ELSE MockSimpleResponse

\* float(field_data.get('confidence', 0.5)), for an item whose confidence is a number
RawConfidence(item) == IF item.ckind = "missing" THEN Conf(50) ELSE item.cnum

\* float(...) or the construction of ExtractedField raises for this item
ItemRaises(item) == item.ckind = "text" \/ ~ConfidenceAccepted(RawConfidence(item))

\* _parse_enhanced_response
ParseEnhancedResponse(response) ==
    IF ~response.json THEN <<>>
    ELSE LET kept == SelectSeq(response.items, LAMBDA it : it.is_dict /\ it.has_value)
         IN IF \E i \in DOMAIN kept : ItemRaises(kept[i]) THEN <<>>
            ELSE [i \in DOMAIN kept |->
                    Entry(kept[i].name,
                          ExtractedField(kept[i].value, RawConfidence(kept[i]),
                                         GetConfidenceLevel(RawConfidence(kept[i])),
                                         NoLocation,
                                         IF kept[i].has_orig THEN kept[i].original_text
                                         ELSE kept[i].value,
                                         <<>>))]

\* _convert_to_extracted_fields, for a response no item of which raises
ConvertToExtractedFields(items) ==
    [i \in DOMAIN items |->
        LET value == items[i].value
            confidence == IF items[i].is_dict THEN RawConfidence(items[i]) ELSE Conf(70)
        IN Entry(items[i].name,
                 ExtractedField(value, confidence, GetConfidenceLevel(confidence),
                                NoLocation, value, <<>>))]

MockField(name, value, h) ==
    Entry(name, ExtractedField(value, Conf(h), GetConfidenceLevel(Conf(h)), NoLocation,
                               value, <<>>))

\* _get_mock_extraction, converted as extract_fields converts it
MockExtraction(doc_type) ==
    IF doc_type = "invoice"
    THEN <<MockField(N_vendor_name, V_ACME, 95), MockField(N_invoice_number, V_INV2024, 90),
           MockField(N_invoice_date, V_D2024, 92), MockField(N_total_amount, V_AMT2, 95),
           MockField(N_currency, V_USD, 88), MockField(N_vendor_address, V_ADDR, 85),
           MockField(N_subtotal, V_SUB, 90), MockField(N_tax_amount, V_TAX, 88)>>
    ELSE IF doc_type = "receipt"
    THEN <<MockField(N_merchant_name, V_COFFEE, 92),
           MockField(N_transaction_date, V_D2024, 90),
           MockField(N_total_amount, V_1550, 95), MockField(N_payment_method, V_CC, 85)>>
    ELSE IF doc_type = "business_card"
    THEN <<MockField(N_full_name, V_JOHN, 95), MockField(N_company, V_TECH, 90),
           MockField(N_title, V_SWE, 88), MockField(N_email, V_MAIL, 92),
           MockField(N_phone, V_PHONE, 90)>>
    ELSE <<MockField(N_document_content, V_SAMPLE, 75)>>

\* GeminiService.extract_fields: image_ok is whether _prepare_image can open the image
ExtractFields(real, image_ok, outcome, doc_type) ==
    IF real
    THEN IF ~image_ok \/ outcome.raised THEN <<>>
         ELSE IF ~outcome.response.json \/ outcome.response.items = <<>>
              THEN MockExtraction(doc_type)
              ELSE IF \E i \in DOMAIN outcome.response.items :
                         outcome.response.items[i].is_dict
                         /\ ItemRaises(outcome.response.items[i])
                   THEN <<>>
                   ELSE ConvertToExtractedFields(outcome.response.items)
    ELSE MockExtraction(doc_type)

----------------------------------------------------------------------------
(* ProductionDocumentService: gap analysis, coordinates, calibration *)

\* the feature flags set by __init__
validation_enabled == TRUE
spatial_analysis == TRUE
multi_pass_extraction == TRUE

\* critical_fields of _extract_missing_fields
CriticalFields(doc_type) ==
    IF doc_type = "invoice"
    THEN <<N_vendor_name, N_invoice_number, N_total_amount, N_invoice_date>>
    ELSE IF doc_type = "receipt"
    THEN <<N_merchant_name, N_total_amount, N_transaction_date>>
    ELSE IF doc_type = "business_card" THEN <<N_full_name, N_company>>
    ELSE <<>>

\* a gap analysis that looks for absent names only and takes an empty value as found
MissingFieldsAbsentOnly(doc_type, existing_fields) ==
    SelectSeq(CriticalFields(doc_type), LAMBDA n : ~Has(existing_fields, n))

\* missing_fields of _extract_missing_fields
MissingFields(doc_type, existing_fields) ==
    SelectSeq(CriticalFields(doc_type),
              LAMBDA n : ~Has(existing_fields, n) \/ Get(existing_fields, n).value = <<>>)

\* hash(field_name): Python salts str hashes per process, so any integer is a
\* possible outcome; the model draws the salt and keeps hash a function of the name.
MaxHashSalt == 2
PyHash(salt, field_name) == salt * 7 + Len(field_name)

\* the location _add_spatial_coordinates gives the i-th of field_count fields
SimulatedLocation(i, field_count, field_name, salt) ==
    FieldLocation(Conf(10) + Conf(80) * (i % 2),
                  Conf(10) + (Conf(80) * i) \div field_count,
                  Conf(30) + (((2 * PyHash(salt, field_name)) % 30) * Scale) \div 30,
                  Conf(5))

\* _add_spatial_coordinates
AddSpatialCoordinates(fields, salt) ==
    [i \in DOMAIN fields |->
        Entry(fields[i].name,
              [fields[i].f EXCEPT
                  !.location = SimulatedLocation(i - 1, Len(fields), fields[i].name, salt)])]

BoostedNames == {N_total_amount, N_invoice_number, N_vendor_name}

\* one iteration of the loop of _calibrate_confidence
CalibrateField(field_name, field, accuracy_mode) ==
    LET base_confidence == field.confidence
        c1 == IF accuracy_mode = "high" THEN Times(base_confidence, 95, 100)
              ELSE IF accuracy_mode = "fast" THEN Times(base_confidence, 9, 10)
              ELSE base_confidence
        c2 == IF field_name \in BoostedNames /\ base_confidence > Conf(80)
              THEN Min(Conf(98), Times(c1, 105, 100))
              ELSE c1
        c3 == IF field.validation_errors # <<>> THEN Times(c2, 7, 10) ELSE c2
        calibrated_confidence == Max(0, Min(Scale, c3))
    IN [field EXCEPT !.confidence = calibrated_confidence,
                     !.confidence_level = GetConfidenceLevel(calibrated_confidence)]

\* _calibrate_confidence
CalibrateConfidence(fields, accuracy_mode) ==
    [i \in DOMAIN fields |->
        Entry(fields[i].name, CalibrateField(fields[i].name, fields[i].f, accuracy_mode))]

CriticalPatterns == {T_amount, T_total, T_number, T_date, T_name}

\* weight of _calculate_weighted_confidence
Weight(field_name) == IF AnyTermIn(CriticalPatterns, field_name) THEN 2 ELSE 1

RECURSIVE WeightedSum(_)
WeightedSum(fields) ==
    IF fields = <<>> THEN 0
    ELSE fields[1].f.confidence * Weight(fields[1].name) + Bind(Tail(fields), WeightedSum)

RECURSIVE TotalWeight(_)
TotalWeight(fields) ==
    IF fields = <<>> THEN 0 ELSE Weight(fields[1].name) + Bind(Tail(fields), TotalWeight)

\* _calculate_weighted_confidence
CalculateWeightedConfidence(fields) ==
    IF fields = <<>> THEN 0 ELSE WeightedSum(fields) \div TotalWeight(fields)

----------------------------------------------------------------------------
(* Results and statistics *)

\* DocumentProcessingResult, without its metadata and type confidence
ProcessingResult(id, status, doc_type, fields, overall, failed) ==
    [id |-> id, status |-> status, document_type |-> doc_type, extracted_data |-> fields,
     overall_confidence |-> overall, has_error_message |-> failed]

NoResult == ProcessingResult(0, "none", NoType, <<>>, 0, FALSE)

\* no batch call made, no batch result returned
NoBatch == [entry |-> "none", files |-> 0, typed |-> FALSE, max_concurrent |-> 0]

NoBatchResult ==
    [total_documents |-> 0, processed_documents |-> 0, failed_documents |-> 0, results |-> <<>>]

\* no validator called
NoCheck == [validator |-> "none", field_name |-> <<>>, value |-> <<>>, errors |-> <<>>]

\* process_document_enterprise not called, and its extracted_data before the pipeline
NoEnterpriseRequest == [quality_mode |-> "none", document_type |-> NoType, image_ok |-> FALSE]
NoEnterpriseData == [source |-> "none", raised |-> "none", fields |-> <<>>]

\* EnterpriseDocumentService.processing_stats as __init__ sets it
InitialEnterpriseStats ==
    [total_processed |-> 0, successful |-> 0, failed |-> 0, avg_confidence |-> 0]

\* the result built by the except branch of process_document_production
FailedResult(id, doc_type) ==
    ProcessingResult(id, "failed", IF doc_type = NoType THEN "custom" ELSE doc_type,
                     <<>>, 0, TRUE)

InitialStats ==
    [total_processed |-> 0, successful |-> 0, failed |-> 0, avg_confidence |-> 0,
     high |-> 0, medium |-> 0, low |-> 0]

\* _update_stats
UpdateStats(stats, res) ==
    LET total == stats.total_processed + 1
    IN IF res.status = "completed"
       THEN [stats EXCEPT
               !.total_processed = total,
               !.successful = @ + 1,
               !.avg_confidence = (@ * (total - 1) + res.overall_confidence) \div total,
               !.high = IF res.overall_confidence >= Conf(90) THEN @ + 1 ELSE @,
               !.medium = IF res.overall_confidence < Conf(90)
                             /\ res.overall_confidence >= Conf(70) THEN @ + 1 ELSE @,
               !.low = IF res.overall_confidence < Conf(70) THEN @ + 1 ELSE @]
       ELSE [stats EXCEPT !.total_processed = total, !.failed = @ + 1]

----------------------------------------------------------------------------
(* GeminiService.validate_extraction and DocumentProcessingService *)

DigitChars == <<"0", "1", "2", "3", "4", "5", "6", "7", "8", "9">>
DigitValue(c) == (CHOOSE n \in 1..10 : DigitChars[n] = c) - 1

\* int(s) for a string of digits
RECURSIVE ToNat(_)
ToNat(s) ==
    IF s = <<>> THEN 0
    ELSE Bind(SubSeq(s, 1, Len(s) - 1), ToNat) * 10 + DigitValue(s[Len(s)])

IsDigits(s, lo, hi) == Len(s) >= lo /\ Len(s) <= hi /\ \A i \in DOMAIN s : s[i] \in Digit

\* the pieces of s between occurrences of the character sep
RECURSIVE SplitOn(_, _, _)
SplitOn(s, sep, piece) ==
    IF s = <<>> THEN <<piece>>
    ELSE IF Head(s) = sep
         THEN <<piece>> \o Bind(Tail(s), LAMBDA rest : SplitOn(rest, sep, <<>>))
    ELSE Bind2(Tail(s), Append(piece, Head(s)), LAMBDA rest, p : SplitOn(rest, sep, p))

MonthNames ==
    << <<"j", "a", "n", "u", "a", "r", "y">>, <<"f", "e", "b", "r", "u", "a", "r", "y">>,
       <<"m", "a", "r", "c", "h">>, <<"a", "p", "r", "i", "l">>, <<"m", "a", "y">>,
       <<"j", "u", "n", "e">>, <<"j", "u", "l", "y">>, <<"a", "u", "g", "u", "s", "t">>,
       <<"s", "e", "p", "t", "e", "m", "b", "e", "r">>,
       <<"o", "c", "t", "o", "b", "e", "r">>, <<"n", "o", "v", "e", "m", "b", "e", "r">>,
       <<"d", "e", "c", "e", "m", "b", "e", "r">> >>

IsLeap(y) == y % 4 = 0 /\ (y % 100 # 0 \/ y % 400 = 0)
DaysInMonth(y, m) ==
    IF m = 2 THEN (IF IsLeap(y) THEN 29 ELSE 28)
    ELSE IF m \in {4, 6, 9, 11} THEN 30 ELSE 31

\* the directives %Y, %m, %d of strptime
IsYear(s) == IsDigits(s, 4, 4) /\ ToNat(s) >= 1
IsMonth(s) == IsDigits(s, 1, 2) /\ ToNat(s) >= 1 /\ ToNat(s) <= 12
DayDigits(s) == IF Len(s) = 2 /\ s[1] = " " THEN Tail(s) ELSE s
IsDay(s) == IsDigits(DayDigits(s), 1, 2) /\ ToNat(DayDigits(s)) >= 1
            /\ ToNat(DayDigits(s)) <= 31 /\ (Len(s) = 2 /\ s[1] = " " => s[2] # "0")

\* datetime(y, m, d) exists
IsDate(y, m, d) == IsYear(y) /\ IsMonth(m) /\ IsDay(d)
                   /\ ToNat(DayDigits(d)) <= DaysInMonth(ToNat(y), ToNat(m))

\* strptime(s, '%B %d, %Y') succeeds
IsLongDate(s) ==
    \E comma \in {SplitOn(s, ",", <<>>)} :
    \E left \in {IF Len(comma) = 2 THEN SplitWords(comma[1]) ELSE <<>>} :
       /\ Len(comma) = 2
       /\ Len(left) = 2
       /\ comma[1] # <<>> /\ comma[1][1] \notin Space /\ comma[1][Len(comma[1])] \notin Space
       /\ comma[2] # <<>> /\ comma[2][1] \in Space
       /\ \E m \in 1..12 :
             /\ Lower(left[1]) = MonthNames[m]
             /\ IsYear(LStrip(comma[2]))
             /\ IsDay(left[2])
             /\ ToNat(left[2]) <= DaysInMonth(ToNat(LStrip(comma[2])), m)

\* strptime succeeds for one of '%Y-%m-%d', '%m/%d/%Y', '%d/%m/%Y', '%B %d, %Y'
StrptimeAny(s) ==
    \E dash \in {SplitOn(s, "-", <<>>)}, slash \in {SplitOn(s, "/", <<>>)} :
       \/ Len(dash) = 3 /\ IsDate(dash[1], dash[2], dash[3])
       \/ Len(slash) = 3 /\ IsDate(slash[3], slash[1], slash[2])
       \/ Len(slash) = 3 /\ IsDate(slash[3], slash[2], slash[1])
       \/ IsLongDate(s)

\* _validate_date_field
ValidateDateField(field) ==
    IF field.value = <<>> THEN field
    ELSE IF StrptimeAny(field.value)
    THEN [field EXCEPT !.confidence = Min(@ + Conf(5), Scale)]
    ELSE [field EXCEPT !.validation_errors = Append(@, "Invalid date format"),
                       !.confidence = Max(@ - Conf(10), 0)]

\* str.replace(c, '') for each c of chars
Without(s, chars) == SelectSeq(s, LAMBDA c : c \notin chars)

\* re.search(r'[\d.]+', s).group(): the first run of digits and dots, <<>> if none
RECURSIVE FirstRun(_, _)
FirstRun(s, cs) ==
    IF s = <<>> THEN <<>>
    ELSE IF Head(s) \in cs
    THEN <<Head(s)>> \o (IF Len(s) > 1 /\ s[2] \in cs
                          THEN Bind(Tail(s), LAMBDA rest : FirstRun(rest, cs)) ELSE <<>>)
    ELSE Bind(Tail(s), LAMBDA rest : FirstRun(rest, cs))

\* float(s) succeeds for a string of digits and dots
IsFloatText(s) ==
    /\ \E i \in DOMAIN s : s[i] \in Digit
    /\ Cardinality({i \in DOMAIN s : s[i] = "."}) <= 1

\* _validate_amount_field
ValidateAmountField(field) ==
    IF field.value = <<>> THEN field
    ELSE LET amount_match == FirstRun(Without(field.value, {",", "$"}), Digit \cup {"."})
         IN IF amount_match = <<>>
            THEN [field EXCEPT !.validation_errors = Append(@, "No numeric value found"),
                               !.confidence = Max(@ - Conf(10), 0)]
            ELSE IF IsFloatText(amount_match)
            THEN [field EXCEPT !.confidence = Min(@ + Conf(5), Scale)]
            ELSE [field EXCEPT !.validation_errors = Append(@, "Amount validation error"),
                               !.confidence = Max(@ - Conf(10), 0)]

\* _validate_email_field
ValidateEmailField(field) ==
    IF field.value = <<>> THEN field
    ELSE IF FullMatch(EmailPattern, field.value)
    THEN [field EXCEPT !.confidence = Min(@ + Conf(5), Scale)]
    ELSE [field EXCEPT !.validation_errors = Append(@, "Invalid email format"),
                       !.confidence = Max(@ - Conf(10), 0)]

\* _validate_phone_field
ValidatePhoneField(field) ==
    IF field.value = <<>> THEN field
    ELSE IF Len(SelectSeq(field.value, LAMBDA c : c \in Digit)) >= 10
    THEN [field EXCEPT !.confidence = Min(@ + Conf(5), Scale)]
    ELSE [field EXCEPT !.validation_errors = Append(@, "Phone number too short"),
                       !.confidence = Max(@ - Conf(5), 0)]

\* one iteration of the loop of validate_extraction
ValidateExtractionField(field_name, field) ==
    LET validated ==
            IF Contains(T_date, Lower(field_name)) THEN ValidateDateField(field)
            ELSE IF AnyTermIn({T_amount, T_total, T_price}, field_name)
                 THEN ValidateAmountField(field)
            ELSE IF Contains(T_email, Lower(field_name)) THEN ValidateEmailField(field)
            ELSE IF Contains(T_phone, Lower(field_name)) THEN ValidatePhoneField(field)
            ELSE field
    IN [validated EXCEPT !.confidence_level = GetConfidenceLevel(validated.confidence)]

\* validate_extraction
ValidateExtraction(extracted_fields) ==
    [i \in DOMAIN extracted_fields |->
        Entry(extracted_fields[i].name,
              ValidateExtractionField(extracted_fields[i].name, extracted_fields[i].f))]

\* detect_document_type: the types it can return
DetectDocumentType(real, image_ok) ==
    IF ~real THEN {"invoice"} ELSE IF ~image_ok THEN {"custom"} ELSE DocumentTypes

RECURSIVE SumConfidence(_)
SumConfidence(fields) ==
    IF fields = <<>> THEN 0 ELSE fields[1].f.confidence + Bind(Tail(fields), SumConfidence)

\* _calculate_overall_confidence
CalculateOverallConfidence(data) ==
    IF data = <<>> THEN 0
    ELSE SumConfidence(data) \div Len(data)

\* the loop of validate_document_fields over field_updates
RECURSIVE ApplyFieldUpdates(_, _)
ApplyFieldUpdates(data, field_updates) ==
    IF field_updates = <<>> THEN data
    ELSE LET u == field_updates[1]
         IN Bind2(IF Has(data, u.name)
                  THEN Put(data, u.name,
                           [Get(data, u.name) EXCEPT !.value = u.f,
                                                     !.confidence = Scale,
                                                     !.validation_errors = <<>>])
                  ELSE data,
                  Tail(field_updates), ApplyFieldUpdates)

----------------------------------------------------------------------------
(* EnhancedOCRService: the text-block index and find_field_locations *)

BoundingBox(x1, y1, x2, y2) == [x1 |-> x1, y1 |-> y1, x2 |-> x2, y2 |-> y2]
TextBlock(text, bounding_box) == [text |-> text, bounding_box |-> bounding_box]
NoBox == [found |-> FALSE, box |-> BoundingBox(0, 0, 0, 0)]
Box(b) == [found |-> TRUE, box |-> b]

\* the dict extract_text_with_layout returns, or the caller passes
OcrResults(text_blocks, full_text, image_dimensions) ==
    [text_blocks |-> text_blocks, full_text |-> full_text,
     image_dimensions |-> image_dimensions]

\* extract_text_with_layout when the image cannot be opened
OcrFailed == OcrResults(<<>>, <<>>, <<1, 1>>)

\* _find_exact_match
FindExactMatch(text_blocks, value) ==
    LET value_clean == Lower(Strip(value))
        hits == {i \in DOMAIN text_blocks :
                    Contains(value_clean, Lower(Strip(text_blocks[i].text)))}
    IN IF hits = {} THEN NoBox
       ELSE Box(text_blocks[Least(hits)].bounding_box)

\* the length of the common run of a and b that starts at a[i], b[j]
CommonRun(a, b, i, j, ahi, bhi) ==
    IF i > ahi \/ j > bhi \/ a[i] # b[j] THEN 0
    ELSE Bind(Min(ahi - i, bhi - j) + 1,
              LAMBDA room : CHOOSE k \in 1..room :
                               /\ k = room \/ a[i + k] # b[j + k]
                               /\ \A m \in 1..(k - 1) : a[i + m] = b[j + m])

\* SequenceMatcher.find_longest_match: the longest block, the earliest in a, then in b
FindLongestMatch(a, b, alo, ahi, blo, bhi) ==
    LET runs == {<<i, j, CommonRun(a, b, i, j, ahi, bhi)>> : i \in alo..ahi, j \in blo..bhi}
    IN CHOOSE m \in runs :
          \A r \in runs : \/ m[3] > r[3]
                          \/ m[3] = r[3] /\ m[1] < r[1]
                          \/ m[3] = r[3] /\ m[1] = r[1] /\ m[2] <= r[2]

\* the sum of the sizes of SequenceMatcher.get_matching_blocks
RECURSIVE MatchedChars(_, _, _, _, _, _)
MatchedChars(a, b, alo, ahi, blo, bhi) ==
    IF alo > ahi \/ blo > bhi THEN 0
    ELSE Bind(FindLongestMatch(a, b, alo, ahi, blo, bhi),
              LAMBDA m : IF m[3] = 0 THEN 0
                         ELSE m[3] + MatchedChars(a, b, alo, m[1] - 1, blo, m[2] - 1)
                                   + MatchedChars(a, b, m[1] + m[3], ahi, m[2] + m[3], bhi))

\* SequenceMatcher(None, a, b).ratio() as the fraction num / den
Ratio(a, b) ==
    IF Len(a) + Len(b) = 0 THEN [num |-> 1, den |-> 1]
    ELSE [num |-> 2 * Bind(<<a, b>>, LAMBDA ab : MatchedChars(ab[1], ab[2], 1, Len(ab[1]),
                                                              1, Len(ab[2]))),
          den |-> Len(a) + Len(b)]

RatioGreater(r, q) == r.num * q.den > q.num * r.den

\* _find_fuzzy_match: the first block of the best ratio above 0.7
FindFuzzyMatch(text_blocks, value) ==
    LET value_clean == Lower(Strip(value))
        ratio == [i \in DOMAIN text_blocks |->
                     Ratio(value_clean, Lower(Strip(text_blocks[i].text)))]
        good == {i \in DOMAIN text_blocks : RatioGreater(ratio[i], [num |-> 7, den |-> 10])}
    IN IF good = {} THEN NoBox
       ELSE Box(text_blocks[CHOOSE i \in good :
                               \A j \in good : \/ RatioGreater(ratio[i], ratio[j])
                                               \/ ~RatioGreater(ratio[j], ratio[i]) /\ i <= j
                           ].bounding_box)

\* find_field_locations, for one field value
FindFieldLocation(ocr, field_value) ==
    IF field_value = <<>> THEN NoBox
    ELSE LET exact == FindExactMatch(ocr.text_blocks, field_value)
         IN IF exact.found THEN exact
            ELSE FindFuzzyMatch(ocr.text_blocks, field_value)

----------------------------------------------------------------------------
(* EnhancedGeminiService *)

Word == Alpha \cup Digit \cup {"_"}
Literal(w) == [i \in 1..Len(w) |-> Atom({w[i]}, 1, 1)]

\* where re.search finds its match: the first position a match starts at, 0 if none
SearchStart(pat, s) ==
    LET starts == {i \in 1..(Len(s) + 1) : MatchEnds(s, i, pat, 1) # {}}
    IN IF starts = {} THEN 0 ELSE Least(starts)

\* the position the match of pat that starts at i has reached before atom `stop`:
\* each atom takes the most characters that still let the rest of pat match
RECURSIVE GreedyPos(_, _, _, _, _)
GreedyPos(s, i, pat, k, stop) ==
    IF k = stop THEN i
    ELSE LET fits == {n \in pat[k].lo..(IF pat[k].many THEN Len(s) - i + 1
                                        ELSE Min(pat[k].hi, Len(s) - i + 1)) :
                         /\ \A j \in i..(i + n - 1) : s[j] \in pat[k].cs
                         /\ MatchEnds(s, i + n, pat, k + 1) # {}}
         IN Bind(i + Greatest(fits),
                 LAMBDA next : GreedyPos(s, next, pat, k + 1, stop))

\* re.search(pat, s).group(): the text from atom `from` of pat to the end of the match
MatchGroup(pat, s, from) ==
    Bind(SearchStart(pat, s),
         LAMBDA i : SubSeq(s, GreedyPos(s, i, pat, 1, from),
                           GreedyPos(s, i, pat, 1, Len(pat) + 1) - 1))

\* str.title()
Title(s) ==
    [i \in 1..Len(s) |-> IF i = 1 \/ s[i - 1] \notin Alpha THEN UpperChar(s[i])
                         ELSE LowerChar(s[i])]

\* str.upper()
Upper(s) == [i \in 1..Len(s) |-> UpperChar(s[i])]

CompanyWords == {<<"c", "o", "r", "p">>, <<"i", "n", "c">>, <<"l", "l", "c">>, <<"l", "t", "d">>, <<"c", "o", "m", "p", "a", "n", "y">>, <<"s", "e", "r", "v", "i", "c", "e", "s">>, <<"s", "o", "l", "u", "t", "i", "o", "n", "s">>}

\* _extract_mock_vendor_name
VendorNameIn(words) ==
    LET hits == {i \in DOMAIN words : \E comp \in CompanyWords : Contains(comp, Lower(words[i]))}
    IN IF hits = {} THEN V_ACME
       ELSE Bind(Least(hits),
                 LAMBDA i : IF i > 1 THEN Title(words[i - 1]) \o <<" ">> \o Title(words[i])
                            ELSE Title(words[i]))

ExtractMockVendorName(ocr_text) == Bind(SplitWords(ocr_text), VendorNameIn)

\* inv_patterns of _extract_mock_invoice_number, each with the atom its group starts at
InvPatterns ==
    << [pat |-> Literal(<<"i", "n", "v">>) \o <<AtomMany(AnyChar \ Word, 0), AtomMany(Digit, 1),
                   AtomMany(Word \cup {"-"}, 0)>>, group |-> 5],
       [pat |-> Literal(<<"i", "n", "v", "o", "i", "c", "e">>) \o
                <<AtomMany(AnyChar \ Word, 0), Atom({"#", ":"}, 0, 1), AtomMany(Space, 0),
                  AtomMany(Word, 1)>>, group |-> 11],
       [pat |-> <<Atom({"#"}, 1, 1), AtomMany(Space, 0), AtomMany(Digit, 1),
                  AtomMany(Word \cup {"-"}, 0)>>, group |-> 3] >>

\* _extract_mock_invoice_number
ExtractMockInvoiceNumber(ocr_text) ==
    LET hits == {k \in 1..3 : Search(InvPatterns[k].pat, ocr_text)}
    IN IF hits = {} THEN V_INV2025
       ELSE Bind(InvPatterns[Least(hits)],
                 LAMBDA p : Upper(MatchGroup(p.pat, ocr_text, p.group)))

\* amount_patterns of _extract_mock_amount
AmountPatterns ==
    << <<Atom({"$"}, 1, 1), AtomMany(Space, 0), AtomMany(Digit \cup {","}, 1),
         Atom({"."}, 0, 1), AtomMany(Digit, 0)>>,
       <<AtomMany(Digit \cup {","}, 1), Atom({"."}, 1, 1), Atom(Digit, 2, 2)>>,
       Literal(<<"t", "o", "t", "a", "l">>) \o
       <<AtomMany(AnyChar \ Digit, 0), AtomMany(Digit, 1), Atom({",", "."}, 0, 1),
         AtomMany(Digit, 0)>> >>

\* _extract_mock_amount
ExtractMockAmount(ocr_text) ==
    LET hits == {k \in 1..3 : Search(AmountPatterns[k], ocr_text)}
    IN IF hits = {} THEN V_AMT
       ELSE Bind(AmountPatterns[Least(hits)], LAMBDA pat : MatchGroup(pat, ocr_text, 1))

V_MockVendor == <<"M", "o", "c", "k", " ", "V", "e", "n", "d", "o", "r", " ", "C", "o", "r", "p">>

\* _get_enhanced_mock_extraction
MockInvoiceFields(ocr_text) ==
    <<Entry(N_vendor_name,
            ExtractedField(ExtractMockVendorName(ocr_text), Conf(95), "high",
                           NoLocation, V_MockVendor, <<>>)),
      Entry(N_invoice_number,
            ExtractedField(ExtractMockInvoiceNumber(ocr_text), Conf(92), "high",
                           NoLocation, V_INV2025, <<>>)),
      Entry(N_total_amount,
            ExtractedField(ExtractMockAmount(ocr_text), Conf(98), "high",
                           NoLocation, V_AMT, <<>>))>>

EnhancedMockExtraction(doc_type, ocr) ==
    IF doc_type = "invoice" THEN Bind(Lower(ocr.full_text), MockInvoiceFields) ELSE <<>>

\* _parse_gemini_response
ParseGeminiResponse(response) ==
    IF ~response.json THEN <<>>
    ELSE LET kept == SelectSeq(response.items, LAMBDA it : it.is_dict /\ it.has_value)
         IN IF \E i \in DOMAIN kept : ItemRaises(kept[i]) THEN <<>>
            ELSE [i \in DOMAIN kept |->
                    Entry(kept[i].name,
                          ExtractedField(kept[i].value, RawConfidence(kept[i]),
                                         GetConfidenceLevel(RawConfidence(kept[i])),
                                         NoLocation,
                                         IF kept[i].has_orig THEN kept[i].original_text
                                         ELSE kept[i].value,
                                         <<>>))]

\* _extract_with_gemini
ExtractWithGemini(real, image_ok, outcome, doc_type, ocr) ==
    IF real /\ image_ok /\ ~outcome.raised THEN ParseGeminiResponse(outcome.response)
    ELSE EnhancedMockExtraction(doc_type, ocr)

\* validation_rules
CurrencyFields == {N_total_amount, N_subtotal, N_tax_amount}
DateFields == {N_invoice_date, N_transaction_date, <<"d", "u", "e", "_", "d", "a", "t", "e">>}
EmailFields == {N_email, <<"c", "o", "n", "t", "a", "c", "t", "_", "e", "m", "a", "i", "l">>}
PhoneFields == {N_phone, <<"m", "o", "b", "i", "l", "e">>, <<"f", "a", "x">>}

\* r'[\d\-\(\)\+\s]+'
PhonePattern == <<AtomMany(Digit \cup {"-", "(", ")", "+", " "}, 1)>>

\* _validate_field
ValidateField(field_name, value) ==
    IF value = <<>> \/ Strip(value) = <<>> THEN <<>>
    ELSE LET value_str == Strip(value)
         IN (IF field_name \in CurrencyFields /\ ~Search(AmountPattern, value_str)
             THEN <<"Invalid currency format">> ELSE <<>>)
            \o (IF field_name \in DateFields /\ ~IsValidDateFormat(value_str)
                THEN <<"Invalid date format">> ELSE <<>>)
            \o (IF field_name \in EmailFields /\ ~FullMatch(EmailPattern, value_str)
                THEN <<"Invalid email format">> ELSE <<>>)
            \o (IF field_name \in PhoneFields
                   /\ (~Search(PhonePattern, value_str)
                       \/ Len(SelectSeq(value_str, LAMBDA c : c \in Digit)) < 7)
                THEN <<"Invalid phone format">> ELSE <<>>)

\* _correct_field_value
CorrectFieldValue(field_name, value, validation_errors) ==
    IF validation_errors = <<>> THEN value
    ELSE LET stripped == Strip(value)
             money == IF field_name \in CurrencyFields THEN CollapseSpaces(stripped)
                      ELSE stripped
         IN IF field_name \in DateFields
            THEN ReplaceChar(ReplaceChar(money, "/", "-"), ".", "-")
            ELSE money

\* one iteration of the loop of _validate_and_refine
ValidateAndRefineField(field_name, field) ==
    LET validation_errors == ValidateField(field_name, field.value)
        adjusted_confidence == IF validation_errors # <<>>
                               THEN Times(field.confidence, 7, 10)
                               ELSE field.confidence
    IN ExtractedField(CorrectFieldValue(field_name, field.value, validation_errors),
                      adjusted_confidence, GetConfidenceLevel(adjusted_confidence),
                      field.location, field.original_text, validation_errors)

\* _validate_and_refine
ValidateAndRefine(initial_extraction) ==
    [i \in DOMAIN initial_extraction |->
        Entry(initial_extraction[i].name,
              ValidateAndRefineField(initial_extraction[i].name, initial_extraction[i].f))]

\* _convert_bbox_to_location: a division by zero is caught and gives None
ConvertBboxToLocation(bbox, ocr) ==
    LET img_width == ocr.image_dimensions[1]
        img_height == ocr.image_dimensions[2]
    IN IF img_width = 0 \/ img_height = 0 THEN NoLocation
       ELSE FieldLocation((bbox.x1 * Scale) \div img_width,
                          (bbox.y1 * Scale) \div img_height,
                          ((bbox.x2 - bbox.x1) * Scale) \div img_width,
                          ((bbox.y2 - bbox.y1) * Scale) \div img_height)

\* _assign_spatial_coordinates
AssignSpatialCoordinates(extracted_fields, ocr) ==
    [i \in DOMAIN extracted_fields |->
        LET location == FindFieldLocation(ocr, extracted_fields[i].f.value)
        IN Entry(extracted_fields[i].name,
                 [extracted_fields[i].f EXCEPT
                     !.location = IF location.found
                                  THEN ConvertBboxToLocation(location.box, ocr)
                                  ELSE NoLocation])]

\* float(s) for a string of digits, dots and minus signs, in thousandths
NoNumber == [ok |-> FALSE, n |-> 0]
ParseFloat(s) ==
    LET negative == s # <<>> /\ s[1] = "-"
        body == IF negative THEN Tail(s) ELSE s
        parts == SplitOn(body, ".", <<>>)
        whole == parts[1]
        frac == IF Len(parts) = 2 THEN parts[2] ELSE <<>>
        frac3 == SubSeq(frac \o <<"0", "0", "0">>, 1, 3)
        magnitude == ToNat(whole) * (10 * 100) + ToNat(frac3)
    IN IF /\ Len(parts) <= 2
          /\ IsDigits(whole, 0, Len(whole)) /\ IsDigits(frac, 0, Len(frac))
          /\ Len(whole) + Len(frac) >= 1
       THEN [ok |-> TRUE, n |-> IF negative THEN 0 - magnitude ELSE magnitude]
       ELSE NoNumber

\* _extract_numeric_value
ExtractNumericValue(fields, field_name) ==
    IF ~Has(fields, field_name) \/ Get(fields, field_name).value = <<>> THEN NoNumber
    ELSE ParseFloat(SelectSeq(Get(fields, field_name).value,
                              LAMBDA c : c \in Digit \cup {".", "-"}))

\* a check that reports the mismatch and leaves the confidence as it was
MathPenaltyForgotten(confidence) == confidence

\* the penalty of _validate_invoice_math
MathPenalty(confidence) == Times(confidence, 8, 10)

\* _validate_invoice_math
ValidateInvoiceMath(fields) ==
    LET subtotal == ExtractNumericValue(fields, N_subtotal)
        tax_amount == ExtractNumericValue(fields, N_tax_amount)
        total == ExtractNumericValue(fields, N_total_amount)
        gap == subtotal.n + tax_amount.n - total.n
    IN IF subtotal.ok /\ tax_amount.ok /\ total.ok /\ (gap > 10 \/ gap < 0 - 10)
       THEN Put(fields, N_total_amount,
                [Get(fields, N_total_amount) EXCEPT
                    !.validation_errors = Append(@, "Total doesn't match subtotal + tax"),
                    !.confidence = MathPenalty(@)])
       ELSE fields

\* _cross_validate_fields
CrossValidateFields(extracted_fields, doc_type) ==
    IF doc_type = "invoice" THEN ValidateInvoiceMath(extracted_fields) ELSE extracted_fields

----------------------------------------------------------------------------
(* process_document_production, one action per stage *)

AccuracyModes == {"fast", "balanced", "high"}
CustomFieldRequests == {<<>>, <<N_po_number>>}
DocumentId == 1

\* before any invocation
NoRequest == [document_type |-> NoType]
NoEnhancedResult == [returned |-> FALSE, extracted_data |-> <<>>]

\* what generate_content can do in one pass; only the real model is asked
PassOutcomes == IF use_real_api THEN OracleOutcomes ELSE {Answers(R_Empty)}

\* the types _detect_document_type_advanced can return
DetectedTypes(real, image_ok) ==
    IF ~image_ok THEN {"custom"} ELSE IF real THEN DocumentTypes ELSE {"invoice"}

\* without the except branch the exception would leave the coroutine
HandlerMissing(doc_type) == [pc |-> "escaped", result |-> NoResult, stored |-> FALSE]

\* where the except branch of process_document_production leaves the invocation
HandlerOutcome(doc_type) ==
    [pc |-> "done", result |-> FailedResult(DocumentId, doc_type), stored |-> TRUE]

Store(docs, res) == [id \in (DOMAIN docs) \cup {res.id} |-> IF id = res.id THEN res ELSE docs[id]]

\* an exception raised in stage `where` reaches the outer try
Fail(where) ==
    \E h \in {HandlerOutcome(document_type)} :
       /\ pc' = h.pc
       /\ raised_in' = where
       /\ result' = h.result
       /\ documents' = IF h.stored THEN Store(documents, h.result) ELSE documents
       /\ processing_stats' = IF h.stored THEN UpdateStats(processing_stats, h.result)
                              ELSE processing_stats
       /\ UNCHANGED <<service, elsewhere, req, use_real_api, document_type, general_fields, focused_fields,
                      custom_extracted, extracted_data, calls, oracle_failed, stages>>

Init ==
    /\ pc = "idle"
    /\ service = "none"
    /\ req = NoRequest
    /\ use_real_api \in BOOLEAN
    /\ document_type = NoType
    /\ general_fields = <<>>
    /\ focused_fields = <<>>
    /\ focused_prompt = <<>>
    /\ custom_extracted = <<>>
    /\ extracted_data = <<>>
    /\ calls = <<>>
    /\ oracle_failed = {}
    /\ stages = <<>>
    /\ raised_in = ""
    /\ result = NoResult
    /\ documents = <<>>
    /\ processing_stats = InitialStats
    /\ ds_documents = <<>>
    /\ ocr_results = OcrFailed
    /\ enhanced_result = NoEnhancedResult
    /\ batch_call = NoBatch
    /\ semaphore = 0
    /\ tasks = <<>>
    /\ finished = <<>>
    /\ results = <<>>
    /\ failed_count = 0
    /\ batch_result = NoBatchResult
    /\ find_pc = "idle"
    /\ find_value = <<>>
    /\ find_ocr = OcrFailed
    /\ consulted = <<>>
    /\ found_location = NoLocation
    /\ content_check = NoCheck
    /\ enterprise_pc = "idle"
    /\ enterprise_req = NoEnterpriseRequest
    /\ enterprise_ocr = OcrFailed
    /\ enterprise_data = NoEnterpriseData
    /\ enterprise_result = NoResult
    /\ enterprise_documents = <<>>
    /\ enterprise_stats = InitialEnterpriseStats

\* the call process_document_production(file_data, filename, document_type,
\* enhance_image, custom_fields, accuracy_mode)
Invoke ==
    /\ pc = "idle"
    /\ \E mode \in AccuracyModes, dt \in DocumentTypes \cup {NoType},
          cf \in CustomFieldRequests, enh \in BOOLEAN, ok \in BOOLEAN :
          /\ req' = [accuracy_mode |-> mode, document_type |-> dt, custom_fields |-> cf,
                     enhance_image |-> enh, image_ok |-> ok]
          /\ document_type' = dt
    /\ pc' = "enhance"
    /\ service' = "production"
    /\ UNCHANGED <<elsewhere, use_real_api, general_fields, focused_fields, custom_extracted,
                   extracted_data, calls, oracle_failed, stages, raised_in, result,
                   documents, processing_stats>>

\* Step 1: _enhance_image_production catches every exception of its own
EnhanceImage ==
    /\ pc = "enhance"
    /\ pc' = "detect"
    /\ UNCHANGED <<service, elsewhere, req, use_real_api, document_type, general_fields, focused_fields,
                   custom_extracted, extracted_data, calls, oracle_failed, stages,
                   raised_in, result, documents, processing_stats>>

\* Step 2 and the choice of the extraction path of Step 3
DetectType ==
    /\ pc = "detect"
    /\ IF req.document_type # NoType THEN document_type' = document_type
       ELSE \E t \in DetectedTypes(use_real_api, req.image_ok) : document_type' = t
    /\ pc' = IF req.accuracy_mode = "high" /\ multi_pass_extraction THEN "general"
             ELSE "single"
    /\ UNCHANGED <<service, elsewhere, req, use_real_api, general_fields, focused_fields, custom_extracted,
                   extracted_data, calls, oracle_failed, stages, raised_in, result,
                   documents, processing_stats>>

\* _multi_pass_extraction, Pass 1: _extract_with_enhanced_prompt
GeneralPass ==
    /\ pc = "general"
    /\ IF ~req.image_ok THEN Fail("general")
       ELSE \E o \in PassOutcomes :
              /\ calls' = Append(calls, "GENERAL")
              /\ oracle_failed' = IF use_real_api /\ o.raised
                                  THEN oracle_failed \cup {"GENERAL"} ELSE oracle_failed
              /\ general_fields' =
                     ParseEnhancedResponse(GetGeminiResponseSimple(use_real_api, o))
              /\ pc' = "focused"
              /\ UNCHANGED <<service, elsewhere, req, use_real_api, document_type, focused_fields,
                             custom_extracted, extracted_data, stages, raised_in, result,
                             documents, processing_stats>>

\* _multi_pass_extraction, Pass 2: _extract_missing_fields
FocusedPass ==
    /\ pc = "focused"
    /\ IF MissingFields(document_type, general_fields) = <<>>
       THEN /\ focused_fields' = <<>>
            /\ pc' = "merge"
            /\ UNCHANGED <<service, elsewhere, req, use_real_api, document_type, general_fields,
                           custom_extracted, extracted_data, calls, oracle_failed, stages,
                           raised_in, result, documents, processing_stats>>
       ELSE IF ~req.image_ok THEN Fail("focused")
       ELSE \E o \in PassOutcomes :
              /\ focused_prompt' = MissingFields(document_type, general_fields)
              /\ calls' = Append(calls, "FOCUSED")
              /\ oracle_failed' = IF use_real_api /\ o.raised
                                  THEN oracle_failed \cup {"FOCUSED"} ELSE oracle_failed
              /\ focused_fields' =
                     ParseEnhancedResponse(GetGeminiResponseSimple(use_real_api, o))
              /\ pc' = "merge"
              /\ UNCHANGED <<service, ds_documents, ocr_results, enhanced_result, batch_state,
                             grounding_state, validator_state, enterprise_state, req,
                             use_real_api, document_type, general_fields,
                             custom_extracted, extracted_data, stages, raised_in, result,
                             documents, processing_stats>>

\* combined_fields = {**general_fields, **focused_fields}
MergePasses(general, focused) == DictUpdate(general, focused)

Merge ==
    /\ pc = "merge"
    /\ extracted_data' = MergePasses(general_fields, focused_fields)
    /\ pc' = "refine"
    /\ UNCHANGED <<service, elsewhere, req, use_real_api, document_type, general_fields, focused_fields,
                   custom_extracted, calls, oracle_failed, stages, raised_in, result,
                   documents, processing_stats>>

\* _multi_pass_extraction, Pass 3: _refine_extracted_fields
Refine ==
    /\ pc = "refine"
    /\ extracted_data' = RefineExtractedFields(extracted_data)
    /\ stages' = Append(stages, "refine")
    /\ pc' = "custom"
    /\ UNCHANGED <<service, elsewhere, req, use_real_api, document_type, general_fields, focused_fields,
                   custom_extracted, calls, oracle_failed, raised_in, result, documents,
                   processing_stats>>

\* _single_pass_extraction: gemini_service.extract_fields
SinglePass ==
    /\ pc = "single"
    /\ \E o \in PassOutcomes :
          /\ calls' = Append(calls, "GENERAL")
          /\ oracle_failed' = IF use_real_api /\ req.image_ok /\ o.raised
                              THEN oracle_failed \cup {"GENERAL"} ELSE oracle_failed
          /\ \E fields \in {ExtractFields(use_real_api, req.image_ok, o, document_type)} :
                /\ general_fields' = fields
                /\ extracted_data' = fields
    /\ pc' = "custom"
    /\ UNCHANGED <<service, elsewhere, req, use_real_api, document_type, focused_fields, custom_extracted,
                   stages, raised_in, result, documents, processing_stats>>

\* refined_fields.update(custom_extracted), fields.update(custom_extracted)
MergeCustom(fields, custom) == DictUpdate(fields, custom)

\* the custom fields of either path: _extract_custom_fields and the update
CustomPass ==
    /\ pc = "custom"
    /\ IF req.custom_fields = <<>>
       THEN /\ pc' = "validate"
            /\ UNCHANGED <<service, elsewhere, req, use_real_api, document_type, general_fields, focused_fields,
                           custom_extracted, extracted_data, calls, oracle_failed, stages,
                           raised_in, result, documents, processing_stats>>
       ELSE IF ~req.image_ok THEN Fail("custom")
       ELSE \E o \in PassOutcomes :
              /\ calls' = Append(calls, "CUSTOM")
              /\ oracle_failed' = IF use_real_api /\ o.raised
                                  THEN oracle_failed \cup {"CUSTOM"} ELSE oracle_failed
              /\ \E custom \in {ParseEnhancedResponse(
                                      GetGeminiResponseSimple(use_real_api, o))} :
                    /\ custom_extracted' = custom
                    /\ extracted_data' = MergeCustom(extracted_data, custom)
              /\ pc' = "validate"
              /\ UNCHANGED <<service, elsewhere, req, use_real_api, document_type, general_fields,
                             focused_fields, stages, raised_in, result, documents,
                             processing_stats>>

\* Step 4: _validate_and_correct_fields
Validate ==
    /\ pc = "validate"
    /\ IF validation_enabled
       THEN /\ extracted_data' = ValidateAndCorrectFields(extracted_data)
            /\ stages' = Append(stages, "validate")
       ELSE UNCHANGED <<extracted_data, stages>>
    /\ pc' = "spatial"
    /\ UNCHANGED <<service, elsewhere, req, use_real_api, document_type, general_fields, focused_fields,
                   custom_extracted, calls, oracle_failed, raised_in, result, documents,
                   processing_stats>>

\* Step 5: _add_spatial_coordinates
Spatial ==
    /\ pc = "spatial"
    /\ IF spatial_analysis
       THEN /\ \E salt \in 0..MaxHashSalt :
                 extracted_data' = AddSpatialCoordinates(extracted_data, salt)
            /\ stages' = Append(stages, "spatial")
       ELSE UNCHANGED <<extracted_data, stages>>
    /\ pc' = "calibrate"
    /\ UNCHANGED <<service, elsewhere, req, use_real_api, document_type, general_fields, focused_fields,
                   custom_extracted, calls, oracle_failed, raised_in, result, documents,
                   processing_stats>>

\* Step 6: _calibrate_confidence
Calibrate ==
    /\ pc = "calibrate"
    /\ extracted_data' = CalibrateConfidence(extracted_data, req.accuracy_mode)
    /\ stages' = Append(stages, "calibrate")
    /\ pc' = "finish"
    /\ UNCHANGED <<service, elsewhere, req, use_real_api, document_type, general_fields, focused_fields,
                   custom_extracted, calls, oracle_failed, raised_in, result, documents,
                   processing_stats>>

\* the metrics, the COMPLETED result, the store and the statistics
Finish ==
    /\ pc = "finish"
    /\ \E res \in {ProcessingResult(DocumentId, "completed", document_type, extracted_data,
                                     CalculateWeightedConfidence(extracted_data), FALSE)} :
          /\ result' = res
          /\ documents' = Store(documents, res)
          /\ processing_stats' = UpdateStats(processing_stats, res)
    /\ pc' = "done"
    /\ UNCHANGED <<service, elsewhere, req, use_real_api, document_type, general_fields, focused_fields,
                   custom_extracted, extracted_data, calls, oracle_failed, stages,
                   raised_in>>

----------------------------------------------------------------------------
(* DocumentProcessingService.process_document and validate_document_fields *)

\* what the production and the enhanced pipeline keep to themselves
beyond_document == <<general_fields, focused_fields, custom_extracted, raised_in, documents,
                     processing_stats, ocr_results, enhanced_result, batch_state,
                     focused_prompt, grounding_state,
                     validator_state, enterprise_state>>

\* the call process_document(file_data, filename, document_type, enhance_image,
\* custom_fields), up to the type detection
ProcessDocument ==
    /\ pc = "idle"
    /\ \E dt \in DocumentTypes \cup {NoType}, cf \in CustomFieldRequests, ok \in BOOLEAN :
          /\ req' = [document_type |-> dt, custom_fields |-> cf, image_ok |-> ok]
          /\ IF dt # NoType THEN document_type' = dt
             ELSE \E t \in DetectDocumentType(use_real_api, ok) : document_type' = t
    /\ service' = "document"
    /\ pc' = "ds_extract"
    /\ UNCHANGED <<use_real_api, extracted_data, calls, oracle_failed, stages, result,
                   ds_documents, beyond_document>>

\* extracted_fields = await self.gemini_service.extract_fields(...)
DsExtractFields ==
    /\ pc = "ds_extract"
    /\ \E o \in PassOutcomes :
          /\ calls' = Append(calls, "GENERAL")
          /\ oracle_failed' = IF use_real_api /\ req.image_ok /\ o.raised
                              THEN oracle_failed \cup {"GENERAL"} ELSE oracle_failed
          /\ extracted_data' = ExtractFields(use_real_api, req.image_ok, o, document_type)
    /\ pc' = "ds_validate"
    /\ UNCHANGED <<service, req, use_real_api, document_type, stages, result, ds_documents,
                   beyond_document>>

\* validated_fields = await self.gemini_service.validate_extraction(...)
DsValidateExtraction ==
    /\ pc = "ds_validate"
    /\ extracted_data' = ValidateExtraction(extracted_data)
    /\ stages' = Append(stages, "validate")
    /\ pc' = "ds_finish"
    /\ UNCHANGED <<service, req, use_real_api, document_type, calls, oracle_failed, result,
                   ds_documents, beyond_document>>

\* the COMPLETED result and self.documents[document_id] = result
DsFinish ==
    /\ pc = "ds_finish"
    /\ \E res \in {ProcessingResult(DocumentId, "completed", document_type, extracted_data,
                                     CalculateOverallConfidence(extracted_data), FALSE)} :
          /\ result' = res
          /\ ds_documents' = Store(ds_documents, res)
    /\ pc' = "done"
    /\ UNCHANGED <<service, req, use_real_api, document_type, extracted_data, calls,
                   oracle_failed, stages, beyond_document>>

\* the corrections a user may send
FieldUpdateRequests ==
    { <<Entry(N_total_amount, V_one)>>, <<Entry(N_invoice_date, V_D18)>>,
      <<Entry(N_po_number, V_PO1), Entry(N_vendor_name, V_globex)>>,
      <<Entry(N_total_amount, V_paid)>> }

\* validate_document_fields(document_id, field_updates)
ValidateDocumentFields ==
    /\ pc = "done"
    /\ service = "document"
    /\ \E document_id \in {DocumentId, DocumentId + 1}, field_updates \in FieldUpdateRequests :
          IF document_id \notin DOMAIN ds_documents THEN UNCHANGED <<result, ds_documents>>
          ELSE \E data \in {ApplyFieldUpdates(ds_documents[document_id].extracted_data,
                                              field_updates)} :
                  /\ result' = [ds_documents[document_id] EXCEPT
                                    !.extracted_data = data,
                                    !.overall_confidence = CalculateOverallConfidence(data)]
                  /\ ds_documents' =
                         Store(ds_documents,
                               [ds_documents[document_id] EXCEPT
                                   !.extracted_data = data,
                                   !.overall_confidence = CalculateOverallConfidence(data)])
    /\ UNCHANGED <<pc, service, req, use_real_api, document_type, extracted_data, calls,
                   oracle_failed, stages, beyond_document>>

----------------------------------------------------------------------------
(* EnhancedGeminiService.process_document_enhanced *)

beyond_enhanced == <<general_fields, focused_fields, custom_extracted, raised_in, result,
                     documents, processing_stats, ds_documents, batch_state, focused_prompt,
                     grounding_state,
                     validator_state, enterprise_state>>

\* the index when no OCR engine is installed
O_NoEngine ==
    OcrResults(<<>>,
               <<"O", "C", "R", " ", "n", "o", "t", " ", "a", "v", "a", "i", "l", "a", "b",
                 "l", "e", " ", "-", " ", "i", "n", "s", "t", "a", "l", "l", " ", "p", "y",
                 "t", "e", "s", "s", "e", "r", "a", "c", "t", " ", "o", "r", " ", "e", "a",
                 "s", "y", "o", "c", "r">>,
               <<100, 50>>)

\* the index of a scanned invoice
O_Invoice ==
    OcrResults(<<TextBlock(<<"G", "l", "o", "b", "e", "x", " ", "C", "o", "r", "p">>,
                           BoundingBox(10, 5, 40, 9)),
                 TextBlock(<<"I", "n", "v", " ", "#", "7">>, BoundingBox(60, 5, 95, 9)),
                 TextBlock(V_D18, BoundingBox(60, 12, 85, 16)),
                 TextBlock(<<"T", "o", "t", "a", "l", " ", "9", "9", ".", "5", "0">>,
                           BoundingBox(5, 40, 100, 45))>>,
               <<"G", "l", "o", "b", "e", "x", " ", "C", "o", "r", "p", " ", "I", "n", "v",
                 " ", "#", "7", " ", "T", "o", "t", "a", "l", " ", "9", "9", ".", "5", "0">>,
               <<100, 50>>)

\* what an OCR engine may read, or a caller may pass
OcrIndexes == {O_NoEngine, O_Invoice}
NoOcr == [given |-> FALSE, index |-> OcrFailed]
GivenOcr(index) == [given |-> TRUE, index |-> index]

\* the call process_document_enhanced(image_data, document_type, ocr_results)
ProcessDocumentEnhanced ==
    /\ pc = "idle"
    /\ \E dt \in DocumentTypes, ok \in BOOLEAN,
          given \in {NoOcr} \cup {GivenOcr(x) : x \in OcrIndexes} :
          /\ req' = [document_type |-> dt, image_ok |-> ok, ocr_results |-> given]
          /\ document_type' = dt
    /\ service' = "enhanced"
    /\ pc' = "eg_ocr"
    /\ UNCHANGED <<use_real_api, extracted_data, calls, oracle_failed, stages, ocr_results,
                   enhanced_result, beyond_enhanced>>

\* Step 1: extract_text_with_layout unless the caller passed an index
EgOcr ==
    /\ pc = "eg_ocr"
    /\ IF req.ocr_results.given THEN ocr_results' = req.ocr_results.index
       ELSE IF ~req.image_ok THEN ocr_results' = OcrFailed
       ELSE \E x \in OcrIndexes : ocr_results' = x
    /\ pc' = "eg_extract"
    /\ UNCHANGED <<service, req, use_real_api, document_type, extracted_data, calls,
                   oracle_failed, stages, enhanced_result, beyond_enhanced>>

\* Step 2: _extract_with_gemini
EgExtract ==
    /\ pc = "eg_extract"
    /\ \E o \in PassOutcomes :
          /\ calls' = Append(calls, "GENERAL")
          /\ oracle_failed' = IF use_real_api /\ req.image_ok /\ o.raised
                              THEN oracle_failed \cup {"GENERAL"} ELSE oracle_failed
          /\ extracted_data' = ExtractWithGemini(use_real_api, req.image_ok, o, document_type,
                                                 ocr_results)
    /\ pc' = "eg_refine"
    /\ UNCHANGED <<service, req, use_real_api, document_type, stages, ocr_results,
                   enhanced_result, beyond_enhanced>>

\* Step 3: _validate_and_refine
EgRefine ==
    /\ pc = "eg_refine"
    /\ extracted_data' = ValidateAndRefine(extracted_data)
    /\ stages' = Append(stages, "validate")
    /\ pc' = "eg_spatial"
    /\ UNCHANGED <<service, req, use_real_api, document_type, calls, oracle_failed,
                   ocr_results, enhanced_result, beyond_enhanced>>

\* Step 4: _assign_spatial_coordinates
EgSpatial ==
    /\ pc = "eg_spatial"
    /\ extracted_data' = AssignSpatialCoordinates(extracted_data, ocr_results)
    /\ stages' = Append(stages, "ground")
    /\ pc' = "eg_cross"
    /\ UNCHANGED <<service, req, use_real_api, document_type, calls, oracle_failed,
                   ocr_results, enhanced_result, beyond_enhanced>>

\* Step 5: _cross_validate_fields, and the return
EgCrossValidate ==
    /\ pc = "eg_cross"
    /\ \E final_extraction \in {CrossValidateFields(extracted_data, document_type)} :
          /\ extracted_data' = final_extraction
          /\ enhanced_result' = [returned |-> TRUE, extracted_data |-> final_extraction]
    /\ stages' = Append(stages, "consistency")
    /\ pc' = "done"
    /\ UNCHANGED <<service, req, use_real_api, document_type, calls, oracle_failed,
                   ocr_results, beyond_enhanced>>

Next ==
    \/ Invoke
    \/ EnhanceImage
    \/ DetectType
    \/ GeneralPass
    \/ FocusedPass
    \/ Merge
    \/ Refine
    \/ SinglePass
    \/ CustomPass
    \/ Validate
    \/ Spatial
    \/ Calibrate
    \/ Finish
    \/ ProcessDocument
    \/ DsExtractFields
    \/ DsValidateExtraction
    \/ DsFinish
    \/ ValidateDocumentFields
    \/ ProcessDocumentEnhanced
    \/ EgOcr
    \/ EgExtract
    \/ EgRefine
    \/ EgSpatial
    \/ EgCrossValidate

Spec == Init /\ [][Next]_vars

\* the event loop resumes a coroutine whose awaited call has returned or raised
FairSpec == Spec /\ WF_vars(Next)

TypeOK ==
    /\ pc \in {"idle", "enhance", "detect", "general", "focused", "merge", "refine",
               "single", "custom", "validate", "spatial", "calibrate", "finish", "done",
               "ds_extract", "ds_validate", "ds_finish", "eg_ocr", "eg_extract",
               "eg_refine", "eg_spatial", "eg_cross"}
    /\ result.status \in {"none", "completed", "failed"}

----------------------------------------------------------------------------
(* UniversalExtractionService: _find_field_location and its strategies.     *)
(* A strategy returns the FieldLocation of the block it hits, or None.      *)

\* FieldLocation(x=bbox.x1 / image_dimensions[0], ...)
BlockLocation(bbox, image_dimensions) ==
    FieldLocation((bbox.x1 * Scale) \div image_dimensions[1],
                  (bbox.y1 * Scale) \div image_dimensions[2],
                  ((bbox.x2 - bbox.x1) * Scale) \div image_dimensions[1],
                  ((bbox.y2 - bbox.y1) * Scale) \div image_dimensions[2])

\* block.text.strip().lower()
BlockTextLower(block) == Lower(Strip(block.text))

\* the location of the first of the blocks `hits`, None when there are none
FirstBlock(hits, text_blocks, image_dimensions) ==
    IF hits = {} THEN NoLocation
    ELSE BlockLocation(text_blocks[Least(hits)].bounding_box, image_dimensions)

\* _find_exact_match
UniversalExactMatch(value, text_blocks, image_dimensions) ==
    LET value_lower == Lower(value)
    IN FirstBlock({i \in DOMAIN text_blocks : value_lower = BlockTextLower(text_blocks[i])},
                  text_blocks, image_dimensions)

\* _find_fuzzy_match: `ratio > 0.8 and ratio > best_ratio` keeps the first block of the
\* best ratio
UniversalFuzzyMatch(value, text_blocks, image_dimensions) ==
    LET value_lower == Lower(value)
        ratio == [i \in DOMAIN text_blocks |-> Ratio(value_lower, BlockTextLower(text_blocks[i]))]
    IN Bind(ratio, LAMBDA r :
          LET good == {i \in DOMAIN text_blocks : RatioGreater(r[i], [num |-> 8, den |-> 10])}
              best == {i \in good : \A j \in good : ~RatioGreater(r[j], r[i])}
          IN FirstBlock(best, text_blocks, image_dimensions))

\* sum(1 for word in words if word in block_text_lower)
WordMatches(words, text) == Cardinality({k \in DOMAIN words : Contains(words[k], text)})

\* _find_partial_match
UniversalPartialMatch(value, text_blocks, image_dimensions) ==
    LET value_lower == Lower(value)
        words == SelectSeq(SplitWords(value_lower), LAMBDA w : Len(w) > 3)
        by_words == IF Len(value) > 20
                    THEN {i \in DOMAIN text_blocks :
                            WordMatches(words, BlockTextLower(text_blocks[i]))
                                >= Min(2, Len(words) \div 2)}
                    ELSE {}
        by_substring ==
            {i \in DOMAIN text_blocks :
                \/ Len(value) > 5 /\ Contains(value_lower, BlockTextLower(text_blocks[i]))
                \/ /\ Len(BlockTextLower(text_blocks[i])) > 5
                   /\ Contains(BlockTextLower(text_blocks[i]), value_lower)}
    IN IF by_words # {} THEN FirstBlock(by_words, text_blocks, image_dimensions)
       ELSE FirstBlock(by_substring, text_blocks, image_dimensions)

\* patterns of _find_pattern_match in the order of the dict, under re.IGNORECASE:
\* amount, date, phone, id_number, percentage
ShapePatterns ==
    <<  <<AtomMany(Digit \cup {","}, 1), Atom({"."}, 0, 1), AtomMany(Digit, 0)>>,
        <<Atom(Digit, 1, 2), Atom({"-", "/"}, 1, 1), Atom(Digit, 1, 2), Atom({"-", "/"}, 1, 1),
          Atom(Digit, 2, 4)>>,
        <<AtomMany(Digit \cup Space \cup {"-", "+", "(", ")"}, 1)>>,
        <<AtomMany(Alpha \cup Digit, 1)>>,
        <<AtomMany(Digit, 1), Atom({"%"}, 1, 1)>>  >>

\* re.sub(r'[^\w\d\.\-/]', '', s)
StripSymbols(s) == SelectSeq(s, LAMBDA c : c \in Word \cup {".", "-", "/"})

\* _find_pattern_match: the first pattern the value matches that has a block, and the
\* first such block
UniversalPatternMatch(value, text_blocks, image_dimensions) ==
    LET value_clean == StripSymbols(value)
        blocks(p) == {i \in DOMAIN text_blocks :
                        LET block_text == Strip(text_blocks[i].text)
                            block_clean == StripSymbols(block_text)
                        IN /\ Search(ShapePatterns[p], block_text)
                           /\ \/ Contains(value_clean, block_clean)
                              \/ Contains(block_clean, value_clean)}
        patterns == {p \in DOMAIN ShapePatterns :
                        Search(ShapePatterns[p], value) /\ blocks(p) # {}}
    IN IF patterns = {} THEN NoLocation
       ELSE FirstBlock(blocks(Least(patterns)), text_blocks, image_dimensions)

\* the keywords of a label in _find_contextual_match
LabelKeywords ==
    {<<"t", "o", "t", "a", "l">>, <<"a", "m", "o", "u", "n", "t">>, <<"d", "a", "t", "e">>, <<"n", "u", "m", "b", "e", "r">>, <<"n", "a", "m", "e">>, <<"a", "d", "d", "r", "e", "s", "s">>}

\* sorted(text_blocks, key=lambda b: (b.bounding_box.y1, b.bounding_box.x1)): the
\* indices of the blocks in sorted order; the sort is stable
SortedBlocks(text_blocks) ==
    LET before(j, i) ==
            \/ text_blocks[j].bounding_box.y1 < text_blocks[i].bounding_box.y1
            \/ /\ text_blocks[j].bounding_box.y1 = text_blocks[i].bounding_box.y1
               /\ \/ text_blocks[j].bounding_box.x1 < text_blocks[i].bounding_box.x1
                  \/ /\ text_blocks[j].bounding_box.x1 = text_blocks[i].bounding_box.x1
                     /\ j < i
    IN [k \in DOMAIN text_blocks |->
           CHOOSE i \in DOMAIN text_blocks :
               Cardinality({j \in DOMAIN text_blocks : before(j, i)}) = k - 1]

\* _find_contextual_match: the first label in reading order with a match among the
\* next four blocks, and the first such block
UniversalContextualMatch(value, text_blocks, image_dimensions) ==
    LET value_lower == Lower(value)
        sorted_blocks == SortedBlocks(text_blocks)
        text(k) == BlockTextLower(text_blocks[sorted_blocks[k]])
        nearby(i) == {j \in (i + 1)..(Min(i + 5, Len(sorted_blocks) + 1) - 1) :
                         \/ Contains(value_lower, text(j))
                         \/ Contains(text(j), value_lower)}
        labels == {i \in DOMAIN sorted_blocks :
                      /\ \E keyword \in LabelKeywords : Contains(keyword, text(i))
                      /\ nearby(i) # {}}
    IN IF labels = {} THEN NoLocation
       ELSE BlockLocation(text_blocks[sorted_blocks[Least(nearby(Least(labels)))]].bounding_box,
                          image_dimensions)

\* _validate_location
ValidateLocation(location) ==
    /\ 0 <= location.x /\ location.x <= Scale /\ 0 <= location.y /\ location.y <= Scale
    /\ (location.width # 0 /\ location.height # 0) =>
          /\ ~(location.width > Conf(80) \/ location.height > Conf(50))
          /\ ~(location.width < Conf(1) \/ 2 * location.height < Conf(1))

\* _refine_bounding_box
RefineBoundingBox(location, field_value) ==
    IF location.width # 0 /\ location.height # 0
    THEN LET min_width == Max(Conf(2), Len(field_value) * 8 * (Scale \div 1000))
             min_height == 15 * (Scale \div 1000)
             adjusted_width == Max(location.width, min_width)
             adjusted_height == Max(location.height, min_height)
         IN FieldLocation(Min(location.x, Scale - adjusted_width),
                          Min(location.y, Scale - adjusted_height),
                          adjusted_width, adjusted_height)
    ELSE location

\* _find_improved_location("", ...): _extract_field_keywords gives no keyword for the
\* empty field name, so no label is looked for and None is returned
FindImprovedLocation == NoLocation

\* _improve_location_accuracy("", field_value, location, ocr_results)
ImproveLocationAccuracy(field_value, location) ==
    IF ~ValidateLocation(location) /\ FindImprovedLocation.present
    THEN FindImprovedLocation
    ELSE RefineBoundingBox(location, field_value)

\* a cascade that tries the contextual strategy before the others
StrategiesContextFirst == <<"contextual", "exact", "fuzzy", "partial", "pattern">>

\* the strategies of _find_field_location in the order of its code
Strategies == <<"exact", "fuzzy", "partial", "pattern", "contextual">>

\* what a strategy finds
StrategyHit(strategy, value, text_blocks, image_dimensions) ==
    IF strategy = "exact" THEN UniversalExactMatch(value, text_blocks, image_dimensions)
    ELSE IF strategy = "fuzzy" THEN UniversalFuzzyMatch(value, text_blocks, image_dimensions)
    ELSE IF strategy = "partial"
    THEN UniversalPartialMatch(value, text_blocks, image_dimensions)
    ELSE IF strategy = "pattern"
    THEN UniversalPatternMatch(value, text_blocks, image_dimensions)
    ELSE UniversalContextualMatch(value, text_blocks, image_dimensions)

\* OCR indexes of extract_text_with_layout: an invoice with its labels, the same texts
\* without labels, and an image without text
B_InvoiceNumber == <<"I", "n", "v", "o", "i", "c", "e", " ", "N", "u", "m", "b", "e", "r">>
B_Acme == <<"A", "c", "m", "e", " ", "C", "o", "r", "p", "o", "r", "a", "t", "i", "o", "n",
            " ", "L", "t", "d">>
B_TotalAmount == <<"T", "o", "t", "a", "l", " ", "A", "m", "o", "u", "n", "t">>
B_Amount == <<"$", " ", "1", ",", "2", "3", "4", ".", "5", "6", " ", "U", "S", "D">>
F_Misread == <<"I", "N", "V", "-", "2", "0", "2", "4", "-", "O", "0", "1">>
F_Corporation == <<"C", "o", "r", "p", "o", "r", "a", "t", "i", "o", "n">>
F_Address == <<"A", "c", "m", "e", " ", "C", "o", "r", "p", "o", "r", "a", "t", "i", "o",
               "n", " ", "L", "t", "d", ",", " ", "1", "2", " ", "M", "a", "i", "n", " ",
               "S", "t", "r", "e", "e", "t">>
F_Digits == <<"1", "2", "3", "4", ".", "5", "6">>
F_Currency == <<"$">>
F_Unknown == <<"x", "y", "z">>

G_Labelled ==
    OcrResults(<<TextBlock(B_InvoiceNumber, BoundingBox(5, 5, 25, 8)),
                 TextBlock(V_INV2024, BoundingBox(30, 5, 45, 8)),
                 TextBlock(B_Acme, BoundingBox(5, 12, 40, 15)),
                 TextBlock(B_TotalAmount, BoundingBox(5, 80, 20, 83)),
                 TextBlock(B_Amount, BoundingBox(30, 80, 52, 83))>>,
               <<>>, <<100, 100>>)

G_Unlabelled ==
    OcrResults(<<TextBlock(B_Amount, BoundingBox(60, 4, 82, 7)),
                 TextBlock(Upper(B_Acme), BoundingBox(4, 4, 39, 7)),
                 TextBlock(Lower(V_INV2024), BoundingBox(4, 10, 19, 13))>>,
               <<>>, <<100, 100>>)

G_NoText == OcrResults(<<>>, <<>>, <<100, 100>>)

B_RefCopy ==
    <<"R", "e", "f", " ", "I", "N", "V", "-", "2", "0", "2", "4", "-", "0", "0", "1",
      " ", "c", "o", "p", "y">>

\* a page whose header banner repeats the invoice number over 90% of the page width,
\* below a reference line of ordinary size
G_Banner ==
    OcrResults(<<TextBlock(B_RefCopy, BoundingBox(5, 20, 40, 23)),
                 TextBlock(V_INV2024, BoundingBox(5, 5, 95, 8))>>,
               <<>>, <<100, 100>>)

B_Terms ==
    <<"P", "a", "y", "m", "e", "n", "t", " ", "i", "s", " ", "d", "u", "e", " ", "w",
      "i", "t", "h", "i", "n", " ", "t", "h", "i", "r", "t", "y", " ", "d", "a", "y",
      "s", " ", "o", "f", " ", "t", "h", "e", " ", "i", "n", "v", "o", "i", "c", "e",
      " ", "d", "a", "t", "e", ";", " ", "l", "a", "t", "e", " ", "p", "a", "y", "m",
      "e", "n", "t", "s", " ", "a", "r", "e", " ", "c", "h", "a", "r", "g", "e", "d",
      " ", "i", "n", "t", "e", "r", "e", "s", "t", " ", "o", "f", " ", "1", ".", "5",
      " ", "p", "e", "r", "c", "e", "n", "t", " ", "p", "e", "r", " ", "m", "o", "n",
      "t", "h", " ", "o", "n", " ", "t", "h", "e", " ", "o", "p", "e", "n", " ", "b",
      "a", "l", "a", "n", "c", "e", ".">>

\* a page with its payment terms on one line of 135 characters
G_Terms ==
    OcrResults(<<TextBlock(B_Acme, BoundingBox(5, 5, 40, 8)),
                 TextBlock(B_Terms, BoundingBox(10, 90, 80, 92))>>,
               <<>>, <<100, 100>>)

F_Unit == <<"A", "-", "1", "7">>
F_Seventeen == <<"1", "7">>

\* a page in reading order on which the unit "A-17" is read as separate blocks
G_Unit ==
    OcrResults(<<TextBlock(<<"A">>, BoundingBox(5, 5, 8, 8)),
                 TextBlock(F_Seventeen, BoundingBox(12, 5, 16, 8)),
                 TextBlock(F_Seventeen, BoundingBox(12, 30, 16, 33))>>,
               <<>>, <<100, 100>>)

B_DottedDate == <<"1", "2", ".", "0", "3", ".", "2", "0", "2", "4">>
F_SlashDate == <<"1", "2", "/", "0", "3", "/", "2", "0", "2", "4">>

\* a page whose date is printed with dots: its ratio to "12/03/2024" is 16/20
G_Dated ==
    OcrResults(<<TextBlock(B_Acme, BoundingBox(5, 5, 40, 8)),
                 TextBlock(B_DottedDate, BoundingBox(60, 5, 75, 8))>>,
               <<>>, <<100, 100>>)

GroundIndexes == {G_Labelled, G_Unlabelled, G_NoText, G_Banner, G_Terms, G_Unit, G_Dated}

\* an address of 23 characters without a word longer than three
F_Postal ==
    <<"1", "2", " ", "E", "l", "m", " ", "S", "t", ",", " ", "N", "Y", " ", "1", "0",
      " ", "0", "0", "1", " ", "U", "S">>

\* the values whose location is looked for
GroundValues ==
    {<<>>, <<" ", " ">>, Lower(V_INV2024), F_Misread, F_Corporation, F_Address, F_Digits,
     F_Currency, F_Unknown, B_TotalAmount, B_Terms, F_Unit, F_Seventeen, F_SlashDate,
     F_Postal}

\* the call _find_field_location(value, ocr_results), up to the first strategy
FindFieldLocationCall ==
    /\ find_pc = "idle"
    /\ \E value \in GroundValues, ocr \in GroundIndexes :
          /\ find_value' = value
          /\ find_ocr' = ocr
          /\ IF ocr.text_blocks = <<>> \/ value = <<>>
             THEN find_pc' = "returned"
             ELSE find_pc' = Strategies[1]
    /\ UNCHANGED <<session_state, batch_state, validator_state, enterprise_state, consulted,
                   found_location>>

\* one strategy of the cascade: its hit is improved and returned, and without a hit
\* the next strategy is tried, None being returned after the last
Consult(strategy) ==
    /\ find_pc = strategy
    /\ consulted' = Append(consulted, strategy)
    /\ \E location \in {StrategyHit(strategy, Strip(find_value), find_ocr.text_blocks,
                                    find_ocr.image_dimensions)},
          k \in {i \in DOMAIN Strategies : Strategies[i] = strategy} :
          IF location.present
          THEN /\ found_location' = ImproveLocationAccuracy(Strip(find_value), location)
               /\ find_pc' = "returned"
          ELSE /\ found_location' = NoLocation
               /\ find_pc' = IF k < Len(Strategies) THEN Strategies[k + 1] ELSE "returned"
    /\ UNCHANGED <<session_state, batch_state, validator_state, enterprise_state, find_value,
                   find_ocr>>

FindExactMatchStep == Consult("exact")

FindFuzzyMatchStep == Consult("fuzzy")

FindPartialMatchStep == Consult("partial")

FindPatternMatchStep == Consult("pattern")

FindContextualMatchStep == Consult("contextual")

GroundNext ==
    \/ FindFieldLocationCall
    \/ FindExactMatchStep
    \/ FindFuzzyMatchStep
    \/ FindPartialMatchStep
    \/ FindPatternMatchStep
    \/ FindContextualMatchStep

GroundSpec == Init /\ [][GroundNext]_vars

----------------------------------------------------------------------------
(* process_batch and process_batch_enterprise: one process_single task per  *)
(* file, each holding the semaphore for the time of its document session.   *)
(* The event loop runs one task at a time and switches between them only    *)
(* where a task awaits.                                                     *)

\* the largest number of files submitted in one batch
MaxFiles == 4

\* the values of max_concurrent a caller passes to process_batch_enterprise
MaxConcurrents == 1..2

\* asyncio.Semaphore(3) of process_batch, asyncio.Semaphore(max_concurrent) of
\* process_batch_enterprise
GateSize(call) ==
    IF call.entry = "process_batch" THEN 3 ELSE call.max_concurrent

\* the awaited calls of a document session, in the order of the try block; the type
\* detection is awaited only when the batch names no document type
SuspensionPoints(call) ==
    IF call.entry = "process_batch"
    THEN <<"_enhance_image">>
         \o (IF call.typed THEN <<>> ELSE <<"detect_document_type">>)
         \o <<"extract_fields", "validate_extraction">>
    ELSE <<"_enhance_image_enterprise">>
         \o (IF call.typed THEN <<>> ELSE <<"_detect_document_type_enterprise">>)
         \o <<"_process_with_enhanced_pipeline", "_post_process_fields",
              "_create_enhanced_metadata", "_update_processing_stats">>

\* a process_single task: before `async with semaphore` has let it in it is "waiting",
\* in its session it is at the awaited call `at`, and then it has "returned"
Waiting == [at |-> "waiting", point |-> 0, status |-> "pending"]

InFlight(ts) == {t \in DOMAIN ts : ts[t].at = "session"}

ReturnedTasks(ts) == {t \in DOMAIN ts : ts[t].at = "returned"}

\* a gate that lets every task in
AcquireUnguarded(value) == TRUE

\* Semaphore.acquire lets a task in while the value is positive
AcquireAllowed(value) == value > 0

\* `for result in results`: the results counted as failed
RECURSIVE CountFailed(_)
CountFailed(rs) ==
    IF rs = <<>> THEN 0
    ELSE (IF Head(rs).status = "failed" THEN 1 ELSE 0) + CountFailed(Tail(rs))

\* the batch result of the outer except branch of process_batch: no result kept, every
\* file counted as failed
BatchResultOnError(total, rs, failed) ==
    [total_documents |-> total, processed_documents |-> 0, failed_documents |-> total,
     results |-> <<>>]

\* BatchProcessingResult(...)
BatchResult(total, rs, failed) ==
    [total_documents |-> total, processed_documents |-> Len(rs), failed_documents |-> failed,
     results |-> rs]

\* the call of either batch entry point: the semaphore and one task per file
StartBatch ==
    /\ batch_call = NoBatch
    /\ \E entry \in {"process_batch", "process_batch_enterprise"}, n \in 1..MaxFiles,
          typed \in BOOLEAN :
          \E k \in IF entry = "process_batch" THEN {3} ELSE MaxConcurrents :
             \E call \in {[entry |-> entry, files |-> n, typed |-> typed, max_concurrent |-> k]} :
                /\ batch_call' = call
                /\ semaphore' = GateSize(call)
                /\ tasks' = [t \in 1..n |-> Waiting]
    /\ UNCHANGED <<single_call, finished, results, failed_count, batch_result>>

\* `async with semaphore`: the task enters its session and reaches the first await
Acquire(t) ==
    /\ batch_call # NoBatch
    /\ t \in DOMAIN tasks
    /\ tasks[t].at = "waiting"
    /\ AcquireAllowed(semaphore)
    /\ semaphore' = semaphore - 1
    /\ tasks' = [tasks EXCEPT ![t] = [at |-> "session", point |-> 1, status |-> "pending"]]
    /\ UNCHANGED <<single_call, batch_call, finished, results, failed_count, batch_result>>

\* the awaited call returns and the session runs on to its next await
Resume(t) ==
    /\ batch_call # NoBatch
    /\ t \in DOMAIN tasks
    /\ tasks[t].at = "session"
    /\ tasks[t].point < Len(SuspensionPoints(batch_call))
    /\ tasks' = [tasks EXCEPT ![t].point = @ + 1]
    /\ UNCHANGED <<single_call, batch_call, semaphore, finished, results, failed_count,
                   batch_result>>

\* the session returns its result, COMPLETED after the last await or FAILED from the
\* except branch when the awaited call raised, and leaving `async with` releases the
\* semaphore
Return(t, status) ==
    /\ batch_call # NoBatch
    /\ t \in DOMAIN tasks
    /\ tasks[t].at = "session"
    /\ status = "completed" => tasks[t].point = Len(SuspensionPoints(batch_call))
    /\ tasks' = [tasks EXCEPT ![t] = [at |-> "returned", point |-> @.point, status |-> status]]
    /\ semaphore' = semaphore + 1
    /\ finished' = IF batch_call.entry = "process_batch" THEN Append(finished, t) ELSE finished
    /\ UNCHANGED <<single_call, batch_call, results, failed_count, batch_result>>

SessionCompletes == \E t \in 1..MaxFiles : Return(t, "completed")

SessionFails == \E t \in 1..MaxFiles : Return(t, "failed")

\* process_batch: one turn of `for task in asyncio.as_completed(tasks)`
Collect ==
    /\ batch_call # NoBatch
    /\ batch_call.entry = "process_batch"
    /\ batch_result = NoBatchResult
    /\ Len(results) < Len(finished)
    /\ \E t \in {finished[Len(results) + 1]} :
          /\ results' = Append(results, [task |-> t, status |-> tasks[t].status])
          /\ failed_count' = failed_count + (IF tasks[t].status = "failed" THEN 1 ELSE 0)
    /\ UNCHANGED <<single_call, batch_call, semaphore, tasks, finished, batch_result>>

\* process_batch: the batch result after the loop
BatchReturn ==
    /\ batch_call # NoBatch
    /\ batch_call.entry = "process_batch"
    /\ batch_result = NoBatchResult
    /\ Len(results) = batch_call.files
    /\ batch_result' = BatchResult(batch_call.files, results, failed_count)
    /\ UNCHANGED <<single_call, batch_call, semaphore, tasks, finished, results, failed_count>>

\* process_batch_enterprise: asyncio.gather returns the results in the order of the
\* files once every task has returned, and the loop over them builds the batch result
GatherReturn ==
    /\ batch_call # NoBatch
    /\ batch_call.entry = "process_batch_enterprise"
    /\ batch_result = NoBatchResult
    /\ ReturnedTasks(tasks) = DOMAIN tasks
    /\ \E rs \in {[t \in DOMAIN tasks |-> [task |-> t, status |-> tasks[t].status]]} :
          /\ results' = rs
          /\ failed_count' = CountFailed(rs)
          /\ batch_result' = BatchResult(batch_call.files, rs, CountFailed(rs))
    /\ UNCHANGED <<single_call, batch_call, semaphore, tasks, finished>>

BatchNext ==
    \/ StartBatch
    \/ \E t \in 1..MaxFiles : Acquire(t)
    \/ \E t \in 1..MaxFiles : Resume(t)
    \/ SessionCompletes
    \/ SessionFails
    \/ Collect
    \/ BatchReturn
    \/ GatherReturn

BatchSpec == Init /\ [][BatchNext]_vars

\* the event loop runs every task that is ready
BatchFairSpec == BatchSpec /\ WF_vars(BatchNext)

----------------------------------------------------------------------------
(* EnterpriseDocumentService.process_document_enterprise *)

\* __init__: the imports of EnhancedOCRService and EnhancedGeminiService succeed
use_enhanced == TRUE

QualityModes == {"fast", "balanced", "high_accuracy"}
MaxEnterpriseDocuments == 2

T_created == <<"c", "r", "e", "a", "t", "e", "d">>
T_company == <<"c", "o", "m", "p", "a", "n", "y">>

\* the parameters of EnhancedGeminiService.process_document_enhanced after self
EnhancedSignature == <<"image_data", "document_type", "ocr_results">>

\* Python binds a call with `positional` positional arguments and the keyword arguments
\* `keywords` to a signature without *args and **kwargs; a TypeError is raised otherwise
CallBinds(signature, positional, keywords) ==
    /\ positional <= Len(signature)
    /\ \A k \in keywords : \E i \in (positional + 1)..Len(signature) : signature[i] = k

\* process_document_enhanced as a function of what it reads: its five steps in order
EnhancedExtraction(real, image_ok, outcome, doc_type, ocr) ==
    CrossValidateFields(
        AssignSpatialCoordinates(
            ValidateAndRefine(ExtractWithGemini(real, image_ok, outcome, doc_type, ocr)),
            ocr),
        doc_type)

\* EnterpriseDocumentService._clean_field_value
EnterpriseCleanFieldValue(field_name, value) ==
    IF value = <<>> THEN value
    ELSE LET stripped == Strip(value)
             spaced == IF AnyTermIn({T_amount, T_total, T_price, T_cost}, field_name)
                       THEN JoinWords(SplitWords(stripped))
                       ELSE stripped
             dated == IF AnyTermIn({T_date, T_due, T_created}, field_name)
                      THEN ReplaceChar(ReplaceChar(spaced, "/", "-"), ".", "-")
                      ELSE spaced
         IN IF AnyTermIn({T_name, T_vendor, T_customer, T_company}, field_name)
            THEN TitleWords(dated)
            ELSE dated

\* EnterpriseDocumentService._validate_field_format
EnterpriseValidateFieldFormat(field_name, value) ==
    IF value = <<>> THEN <<>>
    ELSE LET value_str == Strip(value)
             digits_only == SelectSeq(value_str, LAMBDA c : c \in Digit)
         IN (IF /\ AnyTermIn({T_amount, T_total, T_price, T_cost}, field_name)
                /\ ~Search(AmountPattern, value_str)
             THEN <<"Invalid currency format">> ELSE <<>>)
            \o (IF Contains(T_email, Lower(field_name)) /\ ~FullMatch(EmailPattern, value_str)
                THEN <<"Invalid email format">> ELSE <<>>)
            \o (IF /\ Contains(T_phone, Lower(field_name))
                   /\ (Len(digits_only) < 7 \/ Len(digits_only) > 15)
                THEN <<"Invalid phone number length">> ELSE <<>>)

\* EnterpriseDocumentService._post_process_fields
PostProcessFields(extracted) ==
    [i \in DOMAIN extracted |->
        LET field == extracted[i].f
            cleaned_value == EnterpriseCleanFieldValue(extracted[i].name, field.value)
            validation_errors == EnterpriseValidateFieldFormat(extracted[i].name, cleaned_value)
            adjusted_confidence == IF validation_errors # <<>>
                                   THEN Times(field.confidence, 8, 10)
                                   ELSE field.confidence
        IN Entry(extracted[i].name,
                 ExtractedField(cleaned_value, adjusted_confidence,
                                EnterpriseGetConfidenceLevel(adjusted_confidence),
                                field.location, field.original_text, validation_errors))]

\* EnterpriseDocumentService._update_processing_stats
UpdateProcessingStats(stats, res) ==
    LET total == stats.total_processed + 1
    IN IF res.status = "completed"
       THEN [stats EXCEPT
               !.total_processed = total,
               !.successful = @ + 1,
               !.avg_confidence = (@ * (total - 1) + res.overall_confidence) \div total]
       ELSE [stats EXCEPT !.total_processed = total, !.failed = @ + 1]

\* the call process_document_enterprise(file_data, filename, document_type, enhance_image,
\* custom_fields, quality_mode) up to the choice of the pipeline; the enhancement of
\* Step 1 changes the image only and keeps its own failures
ProcessDocumentEnterprise ==
    /\ enterprise_pc \in {"idle", "done"}
    /\ Len(enterprise_documents) < MaxEnterpriseDocuments
    /\ \E mode \in QualityModes, dt \in DocumentTypes \cup {NoType}, ok \in BOOLEAN :
          \E detected \in IF dt # NoType THEN {dt} ELSE DetectDocumentType(use_real_api, ok) :
              enterprise_req' = [quality_mode |-> mode, document_type |-> detected,
                                 image_ok |-> ok]
    /\ enterprise_pc' = IF use_enhanced /\ enterprise_req'.quality_mode \in {"balanced", "high_accuracy"}
                        THEN "enhanced_ocr" ELSE "standard"
    /\ enterprise_data' = NoEnterpriseData
    /\ enterprise_ocr' = OcrFailed
    /\ UNCHANGED <<session_state, batch_state, grounding_state, validator_state,
                   enterprise_result, enterprise_documents, enterprise_stats>>

\* _process_with_enhanced_pipeline, Step 1: extract_text_with_layout
EnterpriseOcr ==
    /\ enterprise_pc = "enhanced_ocr"
    /\ IF ~enterprise_req.image_ok THEN enterprise_ocr' = OcrFailed
       ELSE \E x \in OcrIndexes : enterprise_ocr' = x
    /\ enterprise_pc' = "enhanced_call"
    /\ UNCHANGED <<session_state, batch_state, grounding_state, validator_state,
                   enterprise_req, enterprise_data, enterprise_result, enterprise_documents,
                   enterprise_stats>>

\* _process_with_enhanced_pipeline, Step 2: process_document_enhanced(image_data,
\* document_type, ocr_results, accuracy_mode=quality_mode); a call that does not bind
\* raises TypeError into the except branch, which awaits the standard pipeline
EnterpriseEnhancedCall ==
    /\ enterprise_pc = "enhanced_call"
    /\ IF CallBinds(EnhancedSignature, 3, {"accuracy_mode"})
       THEN /\ \E o \in PassOutcomes :
                  enterprise_data' =
                      [source |-> "process_document_enhanced", raised |-> "none",
                       fields |-> EnhancedExtraction(use_real_api, enterprise_req.image_ok, o,
                                                     enterprise_req.document_type,
                                                     enterprise_ocr)]
            /\ enterprise_pc' = "post_process"
            /\ UNCHANGED enterprise_ocr
       ELSE /\ enterprise_data' = [enterprise_data EXCEPT !.raised = "TypeError"]
            /\ enterprise_pc' = "standard"
            /\ enterprise_ocr' = OcrFailed
    /\ UNCHANGED <<session_state, batch_state, grounding_state, validator_state,
                   enterprise_req, enterprise_result, enterprise_documents, enterprise_stats>>

\* _process_with_standard_pipeline: GeminiService.extract_fields
EnterpriseStandard ==
    /\ enterprise_pc = "standard"
    /\ \E o \in PassOutcomes :
          enterprise_data' =
              [enterprise_data EXCEPT
                  !.source = "extract_fields",
                  !.fields = ExtractFields(use_real_api, enterprise_req.image_ok, o,
                                           enterprise_req.document_type)]
    /\ enterprise_pc' = "post_process"
    /\ UNCHANGED <<session_state, batch_state, grounding_state, validator_state,
                   enterprise_req, enterprise_ocr, enterprise_result, enterprise_documents,
                   enterprise_stats>>

\* Step 4: _post_process_fields
EnterprisePostProcess ==
    /\ enterprise_pc = "post_process"
    /\ enterprise_data' = [enterprise_data EXCEPT !.fields = PostProcessFields(@)]
    /\ enterprise_pc' = "finish"
    /\ UNCHANGED <<session_state, batch_state, grounding_state, validator_state,
                   enterprise_req, enterprise_ocr, enterprise_result, enterprise_documents,
                   enterprise_stats>>

\* Steps 5 to 7: the metrics, the COMPLETED result, the store and the statistics
EnterpriseFinish ==
    /\ enterprise_pc = "finish"
    /\ \E res \in {ProcessingResult(Len(enterprise_documents) + 1, "completed",
                                     enterprise_req.document_type, enterprise_data.fields,
                                     CalculateOverallConfidence(enterprise_data.fields),
                                     FALSE)} :
          /\ enterprise_result' = res
          /\ enterprise_documents' = Append(enterprise_documents, res)
          /\ enterprise_stats' = UpdateProcessingStats(enterprise_stats, res)
    /\ enterprise_pc' = "done"
    /\ UNCHANGED <<session_state, batch_state, grounding_state, validator_state,
                   enterprise_req, enterprise_ocr, enterprise_data>>

EnterpriseNext ==
    \/ ProcessDocumentEnterprise
    \/ EnterpriseOcr
    \/ EnterpriseEnhancedCall
    \/ EnterpriseStandard
    \/ EnterprisePostProcess
    \/ EnterpriseFinish

EnterpriseSpec == Init /\ [][EnterpriseNext]_vars

----------------------------------------------------------------------------
(* The running statistics of both services over successive calls *)

MaxStatsDocuments == 3

\* the documents a call can complete with: the statistics read the status and the
\* overall confidence of a result only
StatsData ==
    {<<Entry(N_total_amount,
             ExtractedField(V_AMT, Conf(h), GetConfidenceLevel(Conf(h)), NoLocation, V_AMT,
                            <<>>))>> : h \in {60, 80, 95}}

\* process_document_production from entry to its return of a COMPLETED result
ProductionCallCompletes ==
    /\ Cardinality(DOMAIN documents) < MaxStatsDocuments
    /\ \E data \in StatsData :
          \E res \in {ProcessingResult(Cardinality(DOMAIN documents) + 1, "completed",
                                        "invoice", data, CalculateWeightedConfidence(data),
                                        FALSE)} :
              /\ result' = res
              /\ documents' = Store(documents, res)
              /\ processing_stats' = UpdateStats(processing_stats, res)
    /\ UNCHANGED <<service, elsewhere, req, use_real_api, document_type, general_fields,
                   focused_fields, custom_extracted, extracted_data, calls, oracle_failed,
                   stages, raised_in, pc>>

\* process_document_production from entry through its except branch
ProductionCallFails ==
    /\ Cardinality(DOMAIN documents) < MaxStatsDocuments
    /\ \E res \in {FailedResult(Cardinality(DOMAIN documents) + 1, NoType)} :
          /\ result' = res
          /\ documents' = Store(documents, res)
          /\ processing_stats' = UpdateStats(processing_stats, res)
    /\ UNCHANGED <<service, elsewhere, req, use_real_api, document_type, general_fields,
                   focused_fields, custom_extracted, extracted_data, calls, oracle_failed,
                   stages, raised_in, pc>>

\* process_document_enterprise from entry to its return of a COMPLETED result
EnterpriseCallCompletes ==
    /\ Len(enterprise_documents) < MaxStatsDocuments
    /\ \E data \in StatsData :
          \E res \in {ProcessingResult(Len(enterprise_documents) + 1, "completed", "invoice",
                                        data, CalculateOverallConfidence(data), FALSE)} :
              /\ enterprise_result' = res
              /\ enterprise_documents' = Append(enterprise_documents, res)
              /\ enterprise_stats' = UpdateProcessingStats(enterprise_stats, res)
    /\ UNCHANGED <<session_state, batch_state, grounding_state, validator_state,
                   enterprise_pc, enterprise_req, enterprise_ocr, enterprise_data>>

\* process_document_enterprise from entry through its except branch, which stores the
\* FAILED result and leaves the statistics alone
EnterpriseCallFails ==
    /\ Len(enterprise_documents) < MaxStatsDocuments
    /\ \E res \in {FailedResult(Len(enterprise_documents) + 1, NoType)} :
          /\ enterprise_result' = res
          /\ enterprise_documents' = Append(enterprise_documents, res)
    /\ UNCHANGED <<session_state, batch_state, grounding_state, validator_state,
                   enterprise_pc, enterprise_req, enterprise_ocr, enterprise_data,
                   enterprise_stats>>

StatsNext ==
    \/ ProductionCallCompletes
    \/ ProductionCallFails
    \/ EnterpriseCallCompletes
    \/ EnterpriseCallFails

StatsSpec == Init /\ [][StatsNext]_vars

----------------------------------------------------------------------------
(* The field validators, called on one field name and value *)

\* field names and values handed to a validator
CheckedNames ==
    {<<"t", "o", "t", "a", "l", "_", "a", "m", "o", "u", "n", "t">>,
     <<"s", "u", "b", "t", "o", "t", "a", "l">>,
     <<"t", "a", "x", "_", "a", "m", "o", "u", "n", "t">>,
     <<"u", "n", "i", "t", "_", "p", "r", "i", "c", "e">>,
     <<"s", "h", "i", "p", "p", "i", "n", "g", "_", "c", "o", "s", "t">>,
     <<"i", "n", "v", "o", "i", "c", "e", "_", "d", "a", "t", "e">>,
     <<"v", "e", "n", "d", "o", "r", "_", "n", "a", "m", "e">>,
     <<"e", "m", "a", "i", "l">>}

CheckedValues ==
    {<<>>,
     <<"1", ",", "2", "3", "4", ".", "5", "6">>,
     <<"$", " ", "1", "5", ".", "5", "0">>,
     <<"1", "2">>,
     <<"N", "/", "A">>,
     <<"p", "a", "i", "d">>,
     <<",">>,
     <<"N", "/", "A", ",", " ", "p", "e", "n", "d", "i", "n", "g">>,
     <<" ", " ">>,
     <<"-">>,
     <<"U", "S", "D">>}

\* ProductionDocumentService._validate_field_content(field_name, value, document_type)
ValidateFieldContentCall ==
    /\ \E field_name \in CheckedNames, value \in CheckedValues :
          content_check' = [validator |-> "_validate_field_content",
                            field_name |-> field_name, value |-> value,
                            errors |-> ValidateFieldContent(field_name, value)]
    /\ UNCHANGED <<session_state, batch_state, grounding_state, enterprise_state>>

\* EnhancedGeminiService._validate_field(field_name, value, document_type)
ValidateFieldCall ==
    /\ \E field_name \in CheckedNames, value \in CheckedValues :
          content_check' = [validator |-> "_validate_field",
                            field_name |-> field_name, value |-> value,
                            errors |-> ValidateField(field_name, value)]
    /\ UNCHANGED <<session_state, batch_state, grounding_state, enterprise_state>>

ValidatorNext ==
    \/ ValidateFieldContentCall
    \/ ValidateFieldCall

ValidatorSpec == Init /\ [][ValidatorNext]_vars

----------------------------------------------------------------------------
(* Properties *)

Fields(d) == {d[i].f : i \in DOMAIN d}

\* every field set a service has returned or stored
ReturnedFieldSets ==
    {result.extracted_data, enhanced_result.extracted_data}
    \cup {documents[d].extracted_data : d \in DOMAIN documents}
    \cup {ds_documents[d].extracted_data : d \in DOMAIN ds_documents}

\* every field set of the state, the locals of the running pipeline included
AllFieldSets ==
    ReturnedFieldSets \cup {general_fields, focused_fields, custom_extracted, extracted_data}

Completed == pc = "done" /\ result.status = "completed"

\* C1: after the merge of _multi_pass_extraction, every field GENERAL returned with a
\* non-empty value is still the merged field of that name, whatever FOCUSED returned.
C1_MergeKeepsGeneral ==
    (service = "production" /\ pc = "refine") =>
        \A i \in DOMAIN general_fields :
            general_fields[i].f.value # <<>> =>
                Get(extracted_data, general_fields[i].name) = general_fields[i].f

\* C2: the step that adds the custom fields leaves every field of the built-in set as
\* it was (value and confidence), in the multi-pass and in the single-pass path.
C2_CustomKeepsBuiltIn ==
    [][(service = "production" /\ pc = "custom" /\ pc' = "validate") =>
          \A i \in DOMAIN extracted_data :
              /\ Has(extracted_data', extracted_data[i].name)
              /\ Get(extracted_data', extracted_data[i].name) = extracted_data[i].f]_vars

\* C3: a completed "fast" session has made the GENERAL call only; a completed
\* "balanced" or "high" session has made GENERAL, then FOCUSED exactly when GENERAL
\* left a critical field missing, then CUSTOM exactly when custom fields were
\* requested, and has run the refinement.
C3_ModeSelectsChain ==
    (service = "production" /\ Completed) =>
        IF req.accuracy_mode = "fast" THEN calls = <<"GENERAL">>
        ELSE calls = <<"GENERAL">>
                     \o (IF MissingFields(document_type, general_fields) # <<>>
                         THEN <<"FOCUSED">> ELSE <<>>)
                     \o (IF req.custom_fields # <<>> THEN <<"CUSTOM">> ELSE <<>>)
             /\ \E k \in DOMAIN stages : stages[k] = "refine"

\* C4: a pass whose Oracle call failed has contributed no field: its candidate set is
\* empty, and the pipeline goes on to its next stage.
C4_FailedPassIsEmpty ==
    /\ "GENERAL" \in oracle_failed
           => (IF service = "production" THEN general_fields ELSE extracted_data) = <<>>
    /\ "FOCUSED" \in oracle_failed => focused_fields = <<>>
    /\ "CUSTOM" \in oracle_failed => custom_extracted = <<>>

\* process_document_production has returned: a COMPLETED or FAILED result, stored
\* under its document id
Returned ==
    /\ pc = "done"
    /\ result.status \in {"completed", "failed"}
    /\ result.id \in DOMAIN documents
    /\ documents[result.id] = result

\* C5: no exception leaves process_document_production, and every invocation
\* eventually returns a COMPLETED or FAILED result stored under its document id.
C5_AlwaysReturns ==
    /\ [](pc # "escaped")
    /\ (service = "production" /\ pc = "enhance") ~> Returned

\* a FAILED result caused by an exception inside a pass
C5_FailedIsReturned ==
    service = "production" /\ Returned /\ result.status = "failed" /\ raised_in = "custom"

\* C6: a session is FAILED only when nothing ran before the failure (no pass has made
\* its Oracle call and no pass has produced a field), and a session whose image cannot
\* be decoded makes no Oracle call at all.
C6_FailedOnlyBeforePasses ==
    (service = "production" /\ pc = "done") =>
        /\ result.status = "failed" => (calls = <<>> /\ general_fields = <<>>)
        /\ ~req.image_ok => (result.status = "failed" /\ calls = <<>>)

\* the four stages after the merge, in the order of the specification
RequiredStages == <<"validate", "ground", "consistency", "calibrate">>

\* C7: a pipeline that has returned its fields (the COMPLETED result of the production
\* service, or the dict of the enhanced pipeline) has run the Validator, the OCR Grounding Resolver, the
\* Consistency Checker and the Calibrator, each once and in that order.
C7_StagesInOrder ==
    ((service = "production" /\ Completed) \/ enhanced_result.returned) =>
        SelectSeq(stages, LAMBDA st : st # "refine") = RequiredStages

\* C8: every field's confidence lies in [0, 1], in every field set of every state.
C8_ConfidenceInRange ==
    \A d \in AllFieldSets : \A f \in Fields(d) : 0 <= f.confidence /\ f.confidence <= Scale

\* a completed session whose calibration boost met its cap: a general field of
\* confidence 1.0 returned with 0.98
C8_BoostCapped ==
    /\ service = "production" /\ Completed
    /\ \E i \in DOMAIN general_fields :
          /\ general_fields[i].f.confidence = Scale
          /\ Has(result.extracted_data, general_fields[i].name)
          /\ Get(result.extracted_data, general_fields[i].name).confidence = Conf(98)

\* C9: every field a service returns or stores carries the level of its confidence.
C9_LevelMatchesConfidence ==
    \A d \in ReturnedFieldSets :
        \A f \in Fields(d) : f.confidence_level = GetConfidenceLevel(f.confidence)

\* the plausibility bounds of a location
Plausible(loc) ==
    /\ 0 <= loc.x /\ loc.x <= Scale
    /\ 0 <= loc.y /\ loc.y <= Scale
    /\ Conf(1) <= loc.width /\ loc.width <= Conf(80)
    /\ 2 * loc.height >= Conf(1) /\ loc.height <= Conf(50)

\* C10: every present location of a field of the final field set of the production
\* service is plausible.
C10_LocationsPlausible ==
    (service = "production" /\ Completed) =>
        \A f \in Fields(result.extracted_data) :
            f.location.present => Plausible(f.location)


\* the locations of the text blocks of an OCR index
OcrLocations(ocr) ==
    {ConvertBboxToLocation(ocr.text_blocks[b].bounding_box, ocr) : b \in DOMAIN ocr.text_blocks}

\* C11: a location is never invented. The production service reads no OCR index, so
\* every field of its final field set has no location; every present location the
\* enhanced pipeline returns is the box of a text block of the session's OCR index.
C11_LocationsFromOcr ==
    /\ (service = "production" /\ Completed) =>
           \A f \in Fields(result.extracted_data) : ~f.location.present
    /\ enhanced_result.returned =>
           \A f \in Fields(enhanced_result.extracted_data) :
               f.location.present => f.location \in OcrLocations(ocr_results)


\* the amount of field `name`: float() of its value without the characters outside
\* [-0-9.], when the field is present and that text is a number
AmountOf(fields, name) ==
    IF Has(fields, name)
    THEN ParseFloat(SelectSeq(Get(fields, name).value, LAMBDA c : c \in Digit \cup {".", "-"}))
    ELSE NoNumber

\* subtotal, tax_amount and total_amount are amounts and differ by more than 0.01
Mismatch(fields) ==
    /\ AmountOf(fields, N_subtotal).ok
    /\ AmountOf(fields, N_tax_amount).ok
    /\ AmountOf(fields, N_total_amount).ok
    /\ \E gap \in {AmountOf(fields, N_subtotal).n + AmountOf(fields, N_tax_amount).n
                     - AmountOf(fields, N_total_amount).n} : gap > 10 \/ gap < 0 - 10

Idempotent(d, V(_, _)) ==
    \A i \in DOMAIN d :
        \E name \in {d[i].name}, f \in {d[i].f} :
            f.validation_errors = <<>> => V(name, f) = f

\* C13: a field that has come out of a validator without a validation error is left
\* unchanged (value, confidence, level, errors) when the same validator runs on it
\* again: the refinement and the validation of the production service, validate_extraction
\* of the document service, and the validation of the enhanced pipeline.
C13_ValidationIdempotent ==
    /\ (service = "production" /\ pc = "custom" /\ stages = <<"refine">>)
           => Idempotent(extracted_data, RefineField)
    /\ (service = "production" /\ pc = "spatial")
           => Idempotent(extracted_data, ValidateAndCorrectField)
    /\ (service = "document" /\ pc = "ds_finish")
           => Idempotent(extracted_data, ValidateExtractionField)
    /\ (service = "enhanced" /\ pc = "eg_spatial")
           => Idempotent(extracted_data, ValidateAndRefineField)


\* every result a service has returned or stored
ReturnedResults ==
    {result} \cup {documents[d] : d \in DOMAIN documents}
             \cup {ds_documents[d] : d \in DOMAIN ds_documents}

\* the weight of a field in the document-level confidence: 2 for a critical name
CriticalWeight(name) ==
    IF \E t \in {T_amount, T_total, T_number, T_date, T_name} : Contains(t, Lower(name))
    THEN 2 ELSE 1

RECURSIVE SumOf(_)
SumOf(s) == IF s = <<>> THEN 0 ELSE Head(s) + SumOf(Tail(s))

\* sum(w_i * c_i) / sum(w_i), and 0.0 for no field
WeightedMean(d) ==
    IF d = <<>> THEN 0
    ELSE SumOf([i \in DOMAIN d |-> CriticalWeight(d[i].name) * d[i].f.confidence])
             \div SumOf([i \in DOMAIN d |-> CriticalWeight(d[i].name)])

\* C14: the document-level confidence of every result is the weighted mean of the
\* confidences of its fields (critical names twice), 0.0 for no field, and lies
\* between the least and the greatest field confidence.
C14_WeightedConfidence ==
    \A r \in ReturnedResults :
        /\ r.overall_confidence = WeightedMean(r.extracted_data)
        /\ \A f \in Fields(r.extracted_data) :
               \E g, h \in Fields(r.extracted_data) :
                   g.confidence <= r.overall_confidence /\ r.overall_confidence <= h.confidence


\* the field set d is a tolerant reading of the response r: nothing for a response
\* that is not JSON; otherwise every member that is an object with a value is kept
\* with its value, at its own confidence when that is a number of [0, 1], and at 0.5
\* when the confidence is missing or is not a number
Tolerated(r, d) ==
    IF ~r.json THEN d = <<>>
    ELSE \A i \in DOMAIN r.items :
            \E it \in {r.items[i]} :
                (it.is_dict /\ it.has_value /\ (it.ckind = "num" => ConfidenceAccepted(it.cnum)))
                    => /\ Has(d, it.name)
                       /\ Get(d, it.name).value = it.value
                       /\ Get(d, it.name).confidence =
                              (IF it.ckind = "num" THEN it.cnum ELSE Conf(50))

\* C15: whatever response the real model gives in a pass that did not raise, the
\* fields the pass hands on are a tolerant reading of it: the GENERAL pass of the
\* production service, extract_fields of the document service, and the extraction
\* of the enhanced pipeline.
C15_ResponseTolerated ==
    [][(/\ use_real_api /\ oracle_failed' = oracle_failed
        /\ pc \in {"general", "ds_extract", "eg_extract"} /\ req.image_ok) =>
          \A r \in OracleResponses :
              /\ (pc = "general" /\ pc' = "focused"
                      /\ general_fields' = ParseEnhancedResponse(r))
                     => Tolerated(r, general_fields')
              /\ (pc = "ds_extract" /\ pc' = "ds_validate"
                      /\ extracted_data' = ExtractFields(TRUE, TRUE, Answers(r), document_type))
                     => Tolerated(r, extracted_data')
              /\ (pc = "eg_extract" /\ pc' = "eg_refine"
                      /\ extracted_data' = ParseGeminiResponse(r))
                     => Tolerated(r, extracted_data')]_vars


\* C16: at every moment of a batch run the sessions in flight, admitted by the semaphore
\* and not yet returned, are at most 3 in process_batch and at most max_concurrent in
\* process_batch_enterprise, whatever the number of files and the order of the steps
C16_GateBound ==
    batch_call # NoBatch =>
        /\ Cardinality(InFlight(tasks)) <= GateSize(batch_call)
        /\ semaphore = GateSize(batch_call) - Cardinality(InFlight(tasks))

\* the gate of process_batch is full and a fourth task waits for it
C16_GateFull ==
    /\ batch_call.entry = "process_batch"
    /\ Cardinality(InFlight(tasks)) = 3
    /\ \E t \in DOMAIN tasks : tasks[t].at = "waiting"

FailedTasks(ts) == {t \in DOMAIN ts : ts[t].status = "failed"}

\* the step in which the session of task t fails leaves every other task as it was and
\* gives the slot of t back to the semaphore
FailureIsLocal ==
    \A t \in DOMAIN tasks :
        (tasks[t].status # "failed" /\ t \in DOMAIN tasks' /\ tasks'[t].status = "failed") =>
            /\ \A u \in DOMAIN tasks \ {t} : tasks'[u] = tasks[u]
            /\ tasks'[t].at = "returned"
            /\ semaphore' = semaphore + 1

\* the batch result holds the result of every task once, each with the status its own
\* session ended in, and failed_documents is the number of failed sessions
BatchResultComplete ==
    batch_result # NoBatchResult =>
        /\ ReturnedTasks(tasks) = DOMAIN tasks
        /\ batch_result.total_documents = batch_call.files
        /\ batch_result.processed_documents = batch_call.files
        /\ Len(batch_result.results) = batch_call.files
        /\ \A t \in DOMAIN tasks :
              \E i \in DOMAIN batch_result.results :
                  batch_result.results[i] = [task |-> t, status |-> tasks[t].status]
        /\ batch_result.failed_documents = Cardinality(FailedTasks(tasks))

\* C17: when the session of one document of a batch fails, only that session ends failed:
\* the other tasks are left as they were and the slot is released, every task goes on to
\* its own result, and the batch result returned holds the result of every task with
\* failed_documents the number of failed sessions
C17_SiblingIsolation ==
    /\ [][FailureIsLocal]_vars
    /\ [](BatchResultComplete)
    /\ (FailedTasks(tasks) # {}) ~> (batch_result # NoBatchResult)

\* a batch of four returned with one failed session and three completed siblings
C17_OneFailedOfFour ==
    /\ batch_result # NoBatchResult
    /\ batch_result.total_documents = 4
    /\ batch_result.failed_documents = 1
    /\ Len(batch_result.results) = 4
    /\ \E t \in DOMAIN tasks : tasks[t].status = "failed" /\ tasks[t].point = 1


\* the level the thresholds give: high from 0.9 on, medium from 0.7 up to 0.9, low below
IsLevelOf(level, c) ==
    /\ level \in {"high", "medium", "low"}
    /\ level = "high" <=> c >= Conf(90)
    /\ level = "medium" <=> (Conf(70) <= c /\ c < Conf(90))
    /\ level = "low" <=> c < Conf(70)

\* 0.0, 0.69, 0.7, 0.89, 0.9 and 1.0, and the confidences next to the two thresholds
BoundaryConfidences ==
    {Conf(0), Conf(69), Conf(70) - 1, Conf(70), Conf(70) + 1, Conf(89), Conf(90) - 1,
     Conf(90), Conf(90) + 1, Conf(100)}

\* the confidences of the fields the session holds or a service has returned
ConfidencesInUse ==
    UNION {{f.confidence : f \in Fields(d)} :
              d \in {general_fields, focused_fields, custom_extracted, extracted_data}
                    \cup ReturnedFieldSets}

Gap(doc_type, general) ==
    {n \in {CriticalFields(doc_type)[i] : i \in DOMAIN CriticalFields(doc_type)} :
        \A i \in DOMAIN general : general[i].name = n => general[i].f.value = <<>>}

\* C19: the gap analysis makes the FOCUSED call exactly when some critical field of the
\* document type is absent from GENERAL or empty there, and the prompt of the call names
\* exactly those fields, each once; with an empty gap, as for a type without critical
\* fields, it makes no call and FOCUSED contributes no field
C19_GapAnalysis ==
    [][(pc = "focused" /\ pc' = "merge") =>
          \E gap \in {Gap(document_type, general_fields)} :
              IF gap # {}
              THEN /\ calls' = Append(calls, "FOCUSED")
                   /\ {focused_prompt'[i] : i \in DOMAIN focused_prompt'} = gap
                   /\ Len(focused_prompt') = Cardinality(gap)
              ELSE /\ calls' = calls
                   /\ focused_prompt' = <<>>
                   /\ focused_fields' = <<>>]_vars

\* the FOCUSED call was made for a critical field that GENERAL returned with an empty
\* value, next to one GENERAL did not return
C19_EmptyValueInGap ==
    /\ pc = "merge"
    /\ \E i, j \in DOMAIN focused_prompt :
          /\ Has(general_fields, focused_prompt[i])
          /\ Get(general_fields, focused_prompt[i]).value = <<>>
          /\ ~Has(general_fields, focused_prompt[j])


\* the order of the cascade: Exact, Fuzzy, Partial, Pattern, Contextual
CascadeOrder == <<"exact", "fuzzy", "partial", "pattern", "contextual">>

\* the strategies of the cascade that hit a block for the value of the call
HittingStrategies ==
    {k \in DOMAIN CascadeOrder :
        StrategyHit(CascadeOrder[k], Strip(find_value), find_ocr.text_blocks,
                    find_ocr.image_dimensions).present}

\* C20: _find_field_location consults the strategies in the order Exact, Fuzzy, Partial,
\* Pattern, Contextual, a strategy only after every earlier one found nothing, and returns
\* the location of the hit of the first strategy that has one, as
\* _improve_location_accuracy refines it; it returns no location exactly when no strategy
\* hits, the value is empty or there is no text block
C20_CascadeOrder ==
    /\ consulted = SubSeq(CascadeOrder, 1, Len(consulted))
    /\ \A k \in 1..(Len(consulted) - 1) : k \notin HittingStrategies
    /\ find_pc = "returned" =>
          IF find_value = <<>> \/ find_ocr.text_blocks = <<>>
          THEN consulted = <<>> /\ ~found_location.present
          ELSE IF HittingStrategies = {}
          THEN consulted = CascadeOrder /\ ~found_location.present
          ELSE \E first \in {Least(HittingStrategies)} :
                  /\ Len(consulted) = first
                  /\ found_location.present
                  /\ found_location =
                         ImproveLocationAccuracy(
                             Strip(find_value),
                             StrategyHit(CascadeOrder[first], Strip(find_value),
                                         find_ocr.text_blocks, find_ocr.image_dimensions))

\* the Partial strategy gave the location after Exact and Fuzzy found nothing, and the
\* Pattern and Contextual strategies, which have a hit too, were not consulted
C20_PartialBeforeLater ==
    /\ find_pc = "returned"
    /\ consulted = <<"exact", "fuzzy", "partial">>
    /\ found_location.present
    /\ HittingStrategies = {3, 4, 5}


\* the hit of the strategy consulted last in the current call
LastHit ==
    StrategyHit(consulted[Len(consulted)], Strip(find_value), find_ocr.text_blocks,
                find_ocr.image_dimensions)

\* C21: a hit whose normalized box violates the plausibility bounds is rejected and the
\* next strategy is tried: _find_field_location never returns a location derived from
\* a hit that _validate_location rejects
C21_ImplausibleFallsThrough ==
    (find_pc = "returned" /\ found_location.present) => ValidateLocation(LastHit)


\* C22: for every accepted hit and every value length the refined box is at least
\* max(0.02, 0.008 * len(value)) wide and 0.015 high, no smaller than the hit, and lies
\* on the page: x >= 0, y >= 0, x + width <= 1 and y + height <= 1
C22_RefinedBoxOnPage ==
    (find_pc = "returned" /\ found_location.present /\ ValidateLocation(LastHit)) =>
        /\ found_location.width >= Max(Conf(2), Len(Strip(find_value)) * 8 * (Scale \div 1000))
        /\ found_location.height >= 15 * (Scale \div 1000)
        /\ found_location.width >= LastHit.width
        /\ found_location.height >= LastHit.height
        /\ found_location.x >= 0
        /\ found_location.y >= 0
        /\ found_location.x + found_location.width <= Scale
        /\ found_location.y + found_location.height <= Scale


\* the blocks that qualify for a value within one strategy
ExactQualifying(value, text_blocks) ==
    {i \in DOMAIN text_blocks : Lower(value) = BlockTextLower(text_blocks[i])}

FuzzyQualifying(value, text_blocks) ==
    LET ratio == [i \in DOMAIN text_blocks |->
                     Ratio(Lower(value), BlockTextLower(text_blocks[i]))]
    IN Bind(ratio, LAMBDA r :
          LET good == {i \in DOMAIN text_blocks : RatioGreater(r[i], [num |-> 8, den |-> 10])}
          IN {i \in good : \A j \in good : ~RatioGreater(r[j], r[i])})

PartialQualifying(value, text_blocks) ==
    LET value_lower == Lower(value)
        words == SelectSeq(SplitWords(value_lower), LAMBDA w : Len(w) > 3)
        by_words == IF Len(value) > 20
                    THEN {i \in DOMAIN text_blocks :
                            WordMatches(words, BlockTextLower(text_blocks[i]))
                                >= Min(2, Len(words) \div 2)}
                    ELSE {}
    IN IF by_words # {} THEN by_words
       ELSE {i \in DOMAIN text_blocks :
                \/ Len(value) > 5 /\ Contains(value_lower, BlockTextLower(text_blocks[i]))
                \/ /\ Len(BlockTextLower(text_blocks[i])) > 5
                   /\ Contains(BlockTextLower(text_blocks[i]), value_lower)}

\* a block of a shape class of the value that shares a symbol-stripped substring with it
PatternQualifying(value, text_blocks) ==
    {i \in DOMAIN text_blocks :
        \E p \in DOMAIN ShapePatterns :
            /\ Search(ShapePatterns[p], value)
            /\ Search(ShapePatterns[p], Strip(text_blocks[i].text))
            /\ \/ Contains(StripSymbols(value), StripSymbols(Strip(text_blocks[i].text)))
               \/ Contains(StripSymbols(Strip(text_blocks[i].text)), StripSymbols(value))}

\* a block matching the value among the four blocks that follow a label in reading order
ContextualQualifying(value, text_blocks) ==
    LET sorted_blocks == SortedBlocks(text_blocks)
        text(k) == BlockTextLower(text_blocks[sorted_blocks[k]])
    IN {sorted_blocks[j] : j \in
          {j \in DOMAIN sorted_blocks :
              /\ Contains(Lower(value), text(j)) \/ Contains(text(j), Lower(value))
              /\ \E i \in DOMAIN sorted_blocks :
                    /\ i < j /\ j <= i + 4
                    /\ \E keyword \in LabelKeywords : Contains(keyword, text(i))}}

Qualifying(strategy, value, text_blocks) ==
    IF strategy = "exact" THEN ExactQualifying(value, text_blocks)
    ELSE IF strategy = "fuzzy" THEN FuzzyQualifying(value, text_blocks)
    ELSE IF strategy = "partial" THEN PartialQualifying(value, text_blocks)
    ELSE IF strategy = "pattern" THEN PatternQualifying(value, text_blocks)
    ELSE ContextualQualifying(value, text_blocks)

\* C23: identical (block list, value) inputs give the identical location, and when
\* several blocks qualify within the strategy that hits, the hit is the block with the
\* lowest index in the block list
C23_LowestIndexWins ==
    (find_pc = "returned" /\ found_location.present) =>
        \E q \in {Qualifying(consulted[Len(consulted)], Strip(find_value),
                             find_ocr.text_blocks)} :
            /\ q # {}
            /\ LastHit = BlockLocation(find_ocr.text_blocks[Least(q)].bounding_box,
                                       find_ocr.image_dimensions)
            /\ found_location = ImproveLocationAccuracy(Strip(find_value), LastHit)


\* the similarity ratio of the value of the call to block i
BlockRatio(i) == Ratio(Lower(Strip(find_value)), BlockTextLower(find_ocr.text_blocks[i]))

\* the blocks whose ratio to the value is at least 0.80
FuzzyCandidates ==
    {i \in DOMAIN find_ocr.text_blocks :
        ~RatioGreater([num |-> 8, den |-> 10], BlockRatio(i))}

\* C24: a block is a Fuzzy candidate iff its ratio to the value is >= 0.80, a ratio of
\* exactly 0.80 being accepted, and the Fuzzy strategy returns a candidate of maximum
\* ratio
C24_FuzzyThreshold ==
    (consulted # <<>> /\ consulted[Len(consulted)] = "fuzzy") =>
        \E c \in {FuzzyCandidates} :
            /\ LastHit.present <=> c # {}
            /\ LastHit.present =>
                  \E i \in c :
                      /\ \A j \in c : ~RatioGreater(BlockRatio(j), BlockRatio(i))
                      /\ LastHit = BlockLocation(find_ocr.text_blocks[i].bounding_box,
                                                 find_ocr.image_dimensions)


\* the tokens of the value of the call that are longer than three characters
LongTokens == SelectSeq(SplitWords(Lower(Strip(find_value))), LAMBDA w : Len(w) > 3)

\* at least half of the long tokens occur in block i, and there is such a token
HalfOfTokensIn(i) ==
    /\ Len(LongTokens) > 0
    /\ 2 * WordMatches(LongTokens, BlockTextLower(find_ocr.text_blocks[i])) >= Len(LongTokens)

\* the value and block i pass the substring rule of the Partial strategy
SubstringOf(i) ==
    \/ Contains(Lower(Strip(find_value)), BlockTextLower(find_ocr.text_blocks[i]))
    \/ /\ Len(BlockTextLower(find_ocr.text_blocks[i])) > 5
       /\ Contains(BlockTextLower(find_ocr.text_blocks[i]), Lower(Strip(find_value)))

\* C25: for a value longer than 20 characters the Partial strategy hits a block by its
\* tokens only if at least half of the value's tokens longer than 3 characters occur in
\* the block: a value with no such token or with few of them in the block does not make
\* an arbitrary block a hit
C25_HalfOfTokens ==
    (/\ consulted # <<>> /\ consulted[Len(consulted)] = "partial"
     /\ Len(Strip(find_value)) > 20 /\ LastHit.present) =>
        \E i \in DOMAIN find_ocr.text_blocks :
            /\ LastHit = BlockLocation(find_ocr.text_blocks[i].bounding_box,
                                       find_ocr.image_dimensions)
            /\ HalfOfTokensIn(i) \/ SubstringOf(i)


\* the confidence of a field after the mode scaling of the calibrator
ScaledConfidence(field, accuracy_mode) ==
    IF accuracy_mode = "high" THEN Times(field.confidence, 95, 100)
    ELSE IF accuracy_mode = "fast" THEN Times(field.confidence, 9, 10)
    ELSE field.confidence

\* the calibrated confidence with the criticality boost given to every field whose name
\* contains amount, total, number, date or name, when its scaled confidence exceeds 0.8
BoostedByCriticality(field_name, field, accuracy_mode) ==
    LET scaled == ScaledConfidence(field, accuracy_mode)
        boosted == IF Weight(field_name) = 2 /\ scaled > Conf(80)
                   THEN Min(Conf(98), Times(scaled, 105, 100))
                   ELSE scaled
        penalised == IF field.validation_errors # <<>> THEN Times(boosted, 7, 10)
                     ELSE boosted
    IN Max(0, Min(Scale, penalised))

\* C26: the calibrator boosts exactly the fields whose name contains amount, total,
\* number, date or name and whose confidence after mode scaling exceeds 0.8, to
\* min(0.98, 1.05 x scaled confidence), and applies the validation penalty x0.7 after it
C26_CriticalityBoost ==
    [][pc = "calibrate" =>
          /\ Len(extracted_data') = Len(extracted_data)
          /\ \A i \in DOMAIN extracted_data :
                extracted_data'[i].f.confidence =
                    BoostedByCriticality(extracted_data[i].name, extracted_data[i].f,
                                         req.accuracy_mode)]_vars


\* the value of a field passes the type rules that ProductionDocumentService applies to
\* its name
PassesContentRules(name, f) == ValidateFieldContent(name, f.value) = <<>>

\* the value of a field passes the type rules that validate_extraction applies to its name
PassesExtractionRules(name, f) ==
    ValidateExtractionField(name, [f EXCEPT !.validation_errors = <<>>]).validation_errors
        = <<>>

\* C27: in every stored or returned field set a field whose validation_errors list is
\* empty has a value that passes every type rule applicable to its name, also after an
\* auto-correction and after validate_document_fields replaced the value and cleared the
\* errors
C27_EmptyErrorsMeansValid ==
    /\ \A res \in {documents[d] : d \in DOMAIN documents}
                  \cup (IF service = "production" THEN {result} ELSE {}) :
          \A i \in DOMAIN res.extracted_data :
              res.extracted_data[i].f.validation_errors = <<>> =>
                  PassesContentRules(res.extracted_data[i].name, res.extracted_data[i].f)
    /\ \A res \in {ds_documents[d] : d \in DOMAIN ds_documents}
                  \cup (IF service = "document" THEN {result} ELSE {}) :
          \A i \in DOMAIN res.extracted_data :
              res.extracted_data[i].f.validation_errors = <<>> =>
                  PassesExtractionRules(res.extracted_data[i].name, res.extracted_data[i].f)


\* a field name that contains amount, total, price, cost or subtotal
IsCurrencyName(field_name) ==
    \E t \in {T_amount, T_total, T_price, T_cost, T_subtotal} : Contains(t, Lower(field_name))

\* C28: for a field whose name contains amount, total, price, cost or subtotal and a
\* non-empty value, the validator records an error if and only if the value contains no
\* digit: a value of commas or other non-digit characters only is rejected
C28_CurrencyRule ==
    (/\ content_check.validator # "none"
     /\ IsCurrencyName(content_check.field_name)
     /\ content_check.value # <<>>) =>
        (content_check.errors # <<>> <=>
            ~\E i \in DOMAIN content_check.value : content_check.value[i] \in Digit)


\* C29: with the enhanced services available and quality_mode "balanced" or
\* "high_accuracy", the extracted data of a COMPLETED result of
\* process_document_enterprise is the output of process_document_enhanced; the standard
\* pipeline supplies it only after a failure of the enhanced pipeline at run time
C29_EnhancedPipelineUsed ==
    (/\ enterprise_pc = "done"
     /\ enterprise_result.status = "completed"
     /\ use_enhanced
     /\ enterprise_req.quality_mode \in {"balanced", "high_accuracy"}) =>
        \/ enterprise_data.source = "process_document_enhanced"
        \/ enterprise_data.raised = "runtime"


Succeeded(docs) == {id \in DOMAIN docs : docs[id].status = "completed"}

RECURSIVE SumOverall(_, _)
SumOverall(docs, ids) ==
    IF ids = {} THEN 0
    ELSE LET id == CHOOSE x \in ids : TRUE
         IN docs[id].overall_confidence + SumOverall(docs, ids \ {id})

\* avg is the mean of overall_confidence over the completed documents of docs, up to
\* the rounding of one unit that each of the `steps` integer divisions adds
IsMeanOfSucceeded(avg, docs, steps) ==
    LET n == Cardinality(Succeeded(docs))
        gap == avg * n - SumOverall(docs, Succeeded(docs))
    IN IF n = 0 THEN avg = 0
       ELSE gap <= n * steps /\ 0 - gap <= n * steps

\* C30: after any sequence of COMPLETED and FAILED results processing_stats has
\* total_processed = successful + failed, its confidence_distribution counters sum to
\* successful, and avg_confidence is the arithmetic mean of overall_confidence over the
\* successfully processed documents, in the production and the enterprise service
C30_RunningStatistics ==
    /\ processing_stats.total_processed = processing_stats.successful + processing_stats.failed
    /\ processing_stats.high + processing_stats.medium + processing_stats.low
          = processing_stats.successful
    /\ processing_stats.successful = Cardinality(Succeeded(documents))
    /\ IsMeanOfSucceeded(processing_stats.avg_confidence, documents, MaxStatsDocuments)
    /\ enterprise_stats.total_processed = enterprise_stats.successful + enterprise_stats.failed
    /\ enterprise_stats.successful = Cardinality(Succeeded(enterprise_documents))
    /\ IsMeanOfSucceeded(enterprise_stats.avg_confidence, enterprise_documents,
                         MaxStatsDocuments)

====
